---- MODULE Spec2Model ----
(***************************************************************************)
(* A model of mcprox, the OpenAPI-to-MCP-tool compiler.                    *)
(*                                                                         *)
(*   - the schema normalizer  (internal/openapi: preprocessOpenAPISpec,    *)
(*     fixNullTypes, fixAnyOf, removeNonStandardFields)                    *)
(*   - the tool identifier derivation (sanitizePathForToolID)              *)
(*   - the tool build loops (processPathsIntoTools, generateServerCode)    *)
(*   - one operation turned into a tool, live (processPathsIntoTools) and  *)
(*     emitted (WriteToolDefinition, buildParameterLists)                  *)
(*   - parameter names (sanitizeParamName)                                 *)
(*   - the request planner of the live path (createToolHandler, buildURL,  *)
(*     createHTTPRequest)                                                  *)
(*   - build_url of the emitted server (WriteBuildURL)                     *)
(*   - the stages of Parser.FetchAndParse                                  *)
(*   - the Generator across Generate calls (New, Generate)                 *)
(*                                                                         *)
(* JSON strings are sequences of one-character strings; object keys are    *)
(* TLA+ strings.  A byte buffer is either not JSON or a JSON text: the     *)
(* value it denotes (numbers as written) and whether the text is in the    *)
(* form json.Marshal writes (sorted keys, no white space).                 *)
(***************************************************************************)
EXTENDS Integers, Sequences, FiniteSets, TLC

VARIABLES
    data,      \* normalizer: the input byte buffer
    out,       \* normalizer: result of the latest preprocessOpenAPISpec call
    prev,      \* normalizer: result of the call before the latest one
    pass,      \* normalizer: number of preprocessOpenAPISpec calls made
    schema,    \* fixAnyOf: the schema object handed to fixAnyOf
    fixed,     \* fixAnyOf: the schema object after fixAnyOf
    fpc,       \* fixAnyOf: "idle" | "start" | "done"
    path,      \* tool id: route template
    method,    \* tool id: HTTP method as Operations() keys it (upper case)
    toolID,    \* tool id: result of sanitizePathForToolID
    tpc,       \* tool id: "idle" | "start" | "done"
    doc,       \* build: the document's path items in declaration order
    visited,   \* build: operations in the order processPathsIntoTools met them
    tools,     \* build: the server's tool registry, tool name -> operation
    emitted,   \* build: tool functions in the order generateServerCode wrote them
    bpc,       \* build: "idle" | "start" | "tools" | "done"
    op,        \* tool: the operation a tool is built from
    live,      \* tool: the mcp.Tool processPathsIntoTools builds for op
    py,        \* tool: the function WriteToolDefinition writes for op
    opc,       \* tool: "idle" | "start" | "live" | "done"
    pname,     \* parameter name: the OpenAPI parameter name
    psan,      \* parameter name: result of sanitizeParamName
    ppc,       \* parameter name: "idle" | "start" | "done"
    ubase,     \* buildURL: baseURL argument
    utmpl,     \* buildURL: path argument, the route template
    uparams,   \* buildURL: params argument, the declared parameters
    uargs,     \* buildURL: args argument, argument name -> value
    usubst,    \* buildURL: local `path` once the path parameters are replaced
    ujoined,   \* buildURL: the string baseURL + path handed to url.Parse
    url,       \* buildURL: the string returned
    upc,       \* buildURL: "idle" | "start" | "done"
    cfg,       \* handler: g.config, service URL and authorization
    cop,       \* handler: the operation, its path and its method
    cargs,     \* handler: request.Params.Arguments
    req,       \* handler: the HTTP request handed to client.Do
    res,       \* handler: what the handler returned
    calls,     \* handler: number of client.Do calls made
    cpc,       \* handler: "idle" | "start" | "done"
    fURL,      \* FetchAndParse: swaggerURL
    fServer,   \* FetchAndParse: what the network and the server answer
    fStages,   \* FetchAndParse: the stages run so far, in order
    fRequests, \* FetchAndParse: number of client.Do calls
    fRes,      \* FetchAndParse: what was returned
    gConfigured, \* Generator: the output directory New was given
    gOutputDir,  \* Generator: g.outputDir
    gTitles,     \* Generator: doc.Info.Title of each Generate call so far
    gProject     \* Generator: the project directory and outcome of each Generate call

vars == <<data, out, prev, pass, schema, fixed, fpc, path, method, toolID, tpc,
          doc, visited, tools, emitted, bpc, op, live, py, opc, pname, psan, ppc,
          ubase, utmpl, uparams, uargs, usubst, ujoined, url, upc,
          cfg, cop, cargs, req, res, calls, cpc,
          fURL, fServer, fStages, fRequests, fRes,
          gConfigured, gOutputDir, gTitles, gProject>>

normVars == <<data, out, prev, pass>>
fixVars  == <<schema, fixed, fpc>>
idVars   == <<path, method, toolID, tpc>>
buildVars == <<doc, visited, tools, emitted, bpc>>
toolVars  == <<op, live, py, opc>>
nameVars  == <<pname, psan, ppc>>
urlVars   == <<ubase, utmpl, uparams, uargs, usubst, ujoined, url, upc>>
callVars  == <<cfg, cop, cargs, req, res, calls, cpc>>
fetchVars == <<fURL, fServer, fStages, fRequests, fRes>>
genVars   == <<gConfigured, gOutputDir, gTitles, gProject>>
plannerVars == <<toolVars, nameVars, urlVars, callVars, fetchVars, genVars>>

(***************************************************************************)
(* Bounds of the model.                                                    *)
(***************************************************************************)
MaxDepth == 3      \* nesting depth of the generated schema objects
MaxPathLen == 3    \* length of the enumerated route templates
MaxPaths == 2      \* path items per generated document

(***************************************************************************)
(* JSON values: the tree json.Unmarshal builds into interface{}.           *)
(***************************************************************************)
Str(s)  == [t |-> "string", s |-> s, a |-> <<>>, o |-> <<>>]
Num(s)  == [t |-> "number", s |-> s, a |-> <<>>, o |-> <<>>]
Bool(s) == [t |-> "bool",   s |-> s, a |-> <<>>, o |-> <<>>]
Arr(l)  == [t |-> "array",  s |-> <<>>, a |-> l, o |-> <<>>]
Obj(f)  == [t |-> "object", s |-> <<>>, a |-> <<>>, o |-> f]
Null    == [t |-> "null",   s |-> <<>>, a |-> <<>>, o |-> <<>>]
True    == Bool(<<"t", "r", "u", "e">>)
False   == Bool(<<"f", "a", "l", "s", "e">>)

IsObj(v) == v.t = "object"
IsArr(v) == v.t = "array"
IsStr(v) == v.t = "string"

Has(m, k)    == k \in DOMAIN m
Put(m, k, v) == [j \in (DOMAIN m) \cup {k} |-> IF j = k THEN v ELSE m[j]]
Del(m, k)    == [j \in (DOMAIN m) \ {k} |-> m[j]]
\* for k, v := range src { dst[k] = v }
Merge(dst, src) ==
    [j \in (DOMAIN dst) \cup (DOMAIN src) |-> IF j \in DOMAIN src THEN src[j] ELSE dst[j]]
EmptyMap == [j \in {} |-> Null]

sNull    == <<"n", "u", "l", "l">>
sString  == <<"s", "t", "r", "i", "n", "g">>
sInteger == <<"i", "n", "t", "e", "g", "e", "r">>
sObject  == <<"o", "b", "j", "e", "c", "t">>
sArray   == <<"a", "r", "r", "a", "y">>
s300     == <<"3", ".", "0", ".", "0">>
s31      == <<"3", ".", "1">>

\* strings.HasPrefix
HasPrefix(s, p) == Len(s) >= Len(p) /\ SubSeq(s, 1, Len(p)) = p

(***************************************************************************)
(* fixAnyOf: anyOf [{type: X ...}, {type: "null"}] -> X's fields + nullable *)
(***************************************************************************)
\* the loop of fixAnyOf: hasNull, and mainType as the last member assigned
AnyOfHasNull(anyOf) ==
    \E i \in 1..Len(anyOf) :
        /\ IsObj(anyOf[i])
        /\ Has(anyOf[i].o, "type")
        /\ anyOf[i].o["type"] = Str(sNull)

AnyOfMains(anyOf) ==
    {i \in 1..Len(anyOf) :
        /\ IsObj(anyOf[i])
        /\ Has(anyOf[i].o, "type")
        /\ anyOf[i].o["type"] # Str(sNull)
        /\ IsStr(anyOf[i].o["type"])}

MaxOf(S) == CHOOSE i \in S : \A j \in S : j <= i

fixAnyOfKeepingAnyOf(m) ==
    IF ~Has(m, "anyOf") THEN m
    ELSE IF ~IsArr(m["anyOf"]) THEN m
    ELSE LET anyOf == m["anyOf"].a IN
         IF Len(anyOf) # 2 THEN m
         ELSE IF AnyOfHasNull(anyOf) /\ AnyOfMains(anyOf) # {}
              THEN Put(Merge(m, anyOf[MaxOf(AnyOfMains(anyOf))].o), "nullable", True)
              ELSE m

fixAnyOf(m) ==
    IF ~Has(m, "anyOf") THEN m
    ELSE IF ~IsArr(m["anyOf"]) THEN m
    ELSE LET anyOf == m["anyOf"].a IN
         IF Len(anyOf) # 2 THEN m
         ELSE IF AnyOfHasNull(anyOf) /\ AnyOfMains(anyOf) # {}
              THEN LET mainType == anyOf[MaxOf(AnyOfMains(anyOf))].o
                   IN  Del(Put(Merge(m, mainType), "nullable", True), "anyOf")
              ELSE m

(***************************************************************************)
(* fixNullTypes: walks `properties` only; fixes each property object that  *)
(* has an anyOf, then descends into it.                                    *)
(***************************************************************************)
RECURSIVE fixNullTypes(_)
fixNullTypes(m) ==
    IF Has(m, "properties") /\ IsObj(m["properties"])
    THEN LET properties == m["properties"].o IN
         Put(m, "properties",
             Obj([p \in DOMAIN properties |->
                    IF IsObj(properties[p])
                    THEN Obj(fixNullTypes(fixAnyOf(properties[p].o)))
                    ELSE properties[p]]))
    ELSE m

(***************************************************************************)
(* removeNonStandardFields: drops the deny-listed keys, then descends into *)
(* `properties` entries and `items`.                                       *)
(***************************************************************************)
nonStandardFields == {"error_messages", "hide_error_details"}

RECURSIVE removeNonStandardFieldsNoItems(_)
removeNonStandardFieldsNoItems(m) ==
    LET top == [j \in (DOMAIN m) \ nonStandardFields |-> m[j]]
    IN  IF Has(top, "properties") /\ IsObj(top["properties"])
        THEN LET properties == top["properties"].o IN
             Put(top, "properties",
                 Obj([p \in DOMAIN properties |->
                        IF IsObj(properties[p])
                        THEN Obj(removeNonStandardFieldsNoItems(properties[p].o))
                        ELSE properties[p]]))
        ELSE top

RECURSIVE removeNonStandardFields(_)
removeNonStandardFields(m) ==
    LET top == [j \in (DOMAIN m) \ nonStandardFields |-> m[j]]
        withProps ==
            IF Has(top, "properties") /\ IsObj(top["properties"])
            THEN LET properties == top["properties"].o IN
                 Put(top, "properties",
                     Obj([p \in DOMAIN properties |->
                            IF IsObj(properties[p])
                            THEN Obj(removeNonStandardFields(properties[p].o))
                            ELSE properties[p]]))
            ELSE top
    IN  IF Has(withProps, "items") /\ IsObj(withProps["items"])
        THEN Put(withProps, "items", Obj(removeNonStandardFields(withProps["items"].o)))
        ELSE withProps

(***************************************************************************)
(* preprocessOpenAPISpec                                                   *)
(***************************************************************************)
\* json.Unmarshal(data, &spec) with spec a map[string]interface{}: an object
\* decodes to a map, null leaves the map nil, anything else is an error.
\* A JSON number decodes to a float64 and is written back in its shortest form:
\* trailing zeros of the fraction, and then a trailing point, are gone.
RECURSIVE StripZeros(_)
StripZeros(s) ==
    IF s # <<>> /\ s[Len(s)] = "0" THEN StripZeros(SubSeq(s, 1, Len(s) - 1))
    ELSE IF s # <<>> /\ s[Len(s)] = "." THEN SubSeq(s, 1, Len(s) - 1)
    ELSE s

Float64(s) == IF \E i \in 1..Len(s) : s[i] = "." THEN StripZeros(s) ELSE s

\* the tree json.Unmarshal builds from a JSON text
RECURSIVE Decode(_)
Decode(v) ==
    IF v.t = "number" THEN Num(Float64(v.s))
    ELSE IF v.t = "array" THEN Arr([i \in 1..Len(v.a) |-> Decode(v.a[i])])
    ELSE IF v.t = "object" THEN Obj([k \in DOMAIN v.o |-> Decode(v.o[k])])
    ELSE v

UnmarshalRejectingNull(d) ==
    IF ~d.valid THEN [err |-> TRUE, spec |-> Null]
    ELSE IF d.json.t = "object" THEN [err |-> FALSE, spec |-> Decode(d.json)]
    ELSE [err |-> TRUE, spec |-> Null]

Unmarshal(d) ==
    IF ~d.valid THEN [err |-> TRUE, spec |-> Null]
    ELSE IF d.json.t \in {"object", "null"} THEN [err |-> FALSE, spec |-> Decode(d.json)]
    ELSE [err |-> TRUE, spec |-> Null]

\* json.Marshal(spec): a nil map encodes as null, a map as an object, always in
\* the compact form with sorted keys
Marshal(spec) == [valid |-> TRUE, compact |-> TRUE, json |-> spec]

\* the version check: spec["openapi"].(string) with prefix "3.1"
fixVersionExact(spec) ==
    IF Has(spec, "openapi") /\ IsStr(spec["openapi"])
       /\ spec["openapi"].s = <<"3", ".", "1", ".", "0">>
    THEN Put(spec, "openapi", Str(s300))
    ELSE spec

fixVersion(spec) ==
    IF Has(spec, "openapi") /\ IsStr(spec["openapi"]) /\ HasPrefix(spec["openapi"].s, s31)
    THEN Put(spec, "openapi", Str(s300))
    ELSE spec

\* the body of the loop over components.schemas
processSchemaSwapped(s) == fixNullTypes(removeNonStandardFields(s))

processSchema(s) == removeNonStandardFields(fixNullTypes(s))

fixComponents(spec) ==
    IF Has(spec, "components") /\ IsObj(spec["components"])
    THEN LET components == spec["components"].o IN
         IF Has(components, "schemas") /\ IsObj(components["schemas"])
         THEN LET schemas == components["schemas"].o IN
              Put(spec, "components",
                  Obj(Put(components, "schemas",
                          Obj([n \in DOMAIN schemas |->
                                 IF IsObj(schemas[n])
                                 THEN Obj(processSchema(schemas[n].o))
                                 ELSE schemas[n]]))))
         ELSE spec
    ELSE spec

\* one element of method["parameters"]
fixParam(param) ==
    IF IsObj(param) /\ Has(param.o, "schema") /\ IsObj(param.o["schema"])
    THEN Obj(Put(param.o, "schema", Obj(fixAnyOf(param.o["schema"].o))))
    ELSE param

\* one value of a path item
fixMethod(methodValue) ==
    IF IsObj(methodValue) /\ Has(methodValue.o, "parameters")
       /\ IsArr(methodValue.o["parameters"])
    THEN LET params == methodValue.o["parameters"].a IN
         Obj(Put(methodValue.o, "parameters",
                 Arr([i \in 1..Len(params) |-> fixParam(params[i])])))
    ELSE methodValue

fixPaths(spec) ==
    IF Has(spec, "paths") /\ IsObj(spec["paths"])
    THEN LET paths == spec["paths"].o IN
         Put(spec, "paths",
             Obj([p \in DOMAIN paths |->
                    IF IsObj(paths[p])
                    THEN Obj([k \in DOMAIN paths[p].o |-> fixMethod(paths[p].o[k])])
                    ELSE paths[p]]))
    ELSE spec

preprocessOpenAPISpec(d) ==
    LET u == Unmarshal(d) IN
    IF u.err THEN [err |-> TRUE, bytes |-> [valid |-> FALSE, compact |-> FALSE, json |-> Null]]
    ELSE IF u.spec.t = "null"
         THEN [err |-> FALSE, bytes |-> Marshal(Null)]
         ELSE [err |-> FALSE,
               bytes |-> Marshal(Obj(fixPaths(fixComponents(fixVersion(u.spec.o)))))]

(***************************************************************************)
(* The bounded family of inputs.                                           *)
(***************************************************************************)
LStr   == [type |-> Str(sString)]
LDeny  == [type |-> Str(sString), error_messages |-> Str(<<"e">>),
           hide_error_details |-> True]
LNullT == [type |-> Str(sNull)]
LRef   == [ref |-> Str(<<"r">>)]
LNotNullable == [type |-> Str(sString), nullable |-> False]
\* shapes the walkers must step over
LAnyOfNotList   == [anyOf |-> Str(<<"x">>)]
LAnyOfScalars   == [anyOf |-> Arr(<<Str(<<"x">>), Obj(LNullT)>>)]
LAnyOfTypeList  == [anyOf |-> Arr(<<Obj([type |-> Arr(<<Str(sString)>>)]), Obj(LNullT)>>)]
LAnyOfTwoNulls  == [anyOf |-> Arr(<<Obj(LNullT), Obj(LNullT)>>)]
LPropsNotMap    == [properties |-> Str(<<"x">>), items |-> Str(<<"x">>)]
LPropNotObject  == [properties |-> Obj([p |-> Str(<<"x">>)])]

Leaves == {LStr, LDeny, LNullT, LRef, LNotNullable, LAnyOfNotList, LAnyOfScalars,
           LAnyOfTypeList, LAnyOfTwoNulls, LPropsNotMap, LPropNotObject}

NullUnion(s)    == [anyOf |-> Arr(<<Obj(s), Obj(LNullT)>>)]
NullUnionRev(s) == [anyOf |-> Arr(<<Obj(LNullT), Obj(s)>>)]
NullUnionKeys(s) ==
    [anyOf |-> Arr(<<Obj(s), Obj(LNullT)>>), type |-> Str(sInteger),
     description |-> Str(<<"d">>), error_messages |-> Str(<<"m">>)]
AnyOfThree(s)   == [anyOf |-> Arr(<<Obj(s), Obj(LNullT), Obj(LStr)>>)]
Props(s)        == [type |-> Str(sObject), properties |-> Obj([p |-> Obj(s)])]
Items(s)        == [type |-> Str(sArray), items |-> Obj(s)]

Wrap(S) == {NullUnion(s) : s \in S} \cup {NullUnionRev(s) : s \in S}
           \cup {NullUnionKeys(s) : s \in S} \cup {AnyOfThree(s) : s \in S}
           \cup {Props(s) : s \in S} \cup {Items(s) : s \in S}

RECURSIVE SchemasAt(_)
SchemasAt(d) == IF d = 0 THEN Leaves ELSE Wrap(SchemasAt(d - 1))

\* deeper chains than the enumeration reaches
DeepSchemas ==
    {Props(NullUnion(Props(NullUnion(LDeny)))),
     Props(NullUnionRev(Props(Props(NullUnionKeys(LDeny))))),
     Items(Props(Items(Props(LDeny)))),
     Props(Items(Props(NullUnion(Items(LDeny)))))}

Schemas == UNION {SchemasAt(d) : d \in 0..MaxDepth} \cup DeepSchemas

Versions == {Str(<<"3", ".", "1", ".", "0">>), Str(s31), Str(<<"3", ".", "1", "0", ".", "2">>),
             Str(s300), Str(<<"3", ".", "0", ".", "1">>), Str(<<"2", ".", "0">>),
             Str(<<"1", "3", ".", "1">>), Str(<<"3", ".">>), Str(<<>>),
             Num(s31), Num(<<"3", ".", "1", "0">>), Num(<<"3", ".", "0">>), Num(<<"3", "0">>),
             Null, Arr(<<Str(s31)>>), Arr(<<Num(<<"3", ".", "1", "0">>)>>)}

ParamOf(s)   == Obj([name |-> Str(<<"q">>), in |-> Str(<<"q">>), schema |-> s])
PathsOf(params) == Obj([users |-> Obj([get |-> Obj([parameters |-> params])])])
CompsOf(s)   == Obj([schemas |-> Obj([A |-> s])])

DefaultComps == CompsOf(Obj(Props(NullUnion(LDeny))))
DefaultPaths == PathsOf(Arr(<<ParamOf(Obj(NullUnion(LDeny))), ParamOf(Obj(LDeny))>>))

Doc3(v, c, p) == Obj([openapi |-> v, components |-> c, paths |-> p])

DocsSchema  == {Doc3(Str(s31), CompsOf(Obj(s)), DefaultPaths) : s \in Schemas}
DocsParam   == {Doc3(Str(s300), DefaultComps, PathsOf(Arr(<<ParamOf(Obj(s))>>))) : s \in Schemas}
DocsVersion == {Doc3(v, DefaultComps, DefaultPaths) : v \in Versions}
               \cup {Obj([components |-> DefaultComps, paths |-> DefaultPaths])}
DocsShape ==
    {Obj(EmptyMap),
     Obj([openapi |-> Str(s31)]),
     Obj([components |-> Str(<<"x">>), paths |-> Str(<<"x">>)]),
     Obj([components |-> Obj(EmptyMap), paths |-> Obj(EmptyMap)]),
     Obj([components |-> Obj([schemas |-> Str(<<"x">>)]),
          paths |-> Obj([users |-> Str(<<"x">>)])]),
     Obj([components |-> CompsOf(Str(<<"x">>)),
          paths |-> Obj([users |-> Obj([get |-> Str(<<"x">>)])])]),
     Obj([paths |-> Obj([users |-> Obj([get |-> Obj(EmptyMap)])])]),
     Obj([paths |-> PathsOf(Str(<<"x">>))]),
     Obj([paths |-> PathsOf(Arr(<<Str(<<"x">>)>>))]),
     Obj([paths |-> PathsOf(Arr(<<Obj([name |-> Str(<<"q">>)])>>))]),
     Obj([paths |-> PathsOf(Arr(<<ParamOf(Str(<<"x">>))>>))]),
     Obj([paths |-> PathsOf(Arr(<<ParamOf(Obj(LDeny)), ParamOf(Obj(NullUnion(LStr)))>>))])}

TopLevels == DocsSchema \cup DocsParam \cup DocsVersion \cup DocsShape
             \cup {Null, Arr(<<>>), Arr(<<Obj(EmptyMap)>>), Str(s31), Num(s31), True}

NotJSON == [valid |-> FALSE, compact |-> FALSE, json |-> Null]
\* every top-level value as compact text, some also as text with white space or
\* keys in another order
Inputs  == {NotJSON} \cup {[valid |-> TRUE, compact |-> TRUE, json |-> v] : v \in TopLevels}
           \cup {[valid |-> TRUE, compact |-> FALSE, json |-> v] :
                     v \in DocsVersion \cup DocsShape \cup {Null, Arr(<<>>)}}

NoResult == [err |-> FALSE, bytes |-> NotJSON]

(***************************************************************************)
(* Specification of the normalizer: one call, then a call on its output.   *)
(***************************************************************************)
IdleFix   == schema = EmptyMap /\ fixed = EmptyMap /\ fpc = "idle"
IdleID    == path = <<>> /\ method = <<>> /\ toolID = <<>> /\ tpc = "idle"
IdleBuild == doc = <<>> /\ visited = <<>> /\ tools = <<>> /\ emitted = <<>> /\ bpc = "idle"
IdleNorm  == data = NotJSON /\ out = NoResult /\ prev = NoResult /\ pass = 0
IdleTool  == op = <<>> /\ live = <<>> /\ py = <<>> /\ opc = "idle"
IdleName  == pname = <<>> /\ psan = <<>> /\ ppc = "idle"
IdleURL   ==
    /\ ubase = <<>> /\ utmpl = <<>> /\ uparams = <<>> /\ uargs = <<>>
    /\ usubst = <<>> /\ ujoined = <<>> /\ url = <<>> /\ upc = "idle"
IdleCall  ==
    /\ cfg = <<>> /\ cop = <<>> /\ cargs = <<>> /\ req = <<>> /\ res = <<>>
    /\ calls = 0 /\ cpc = "idle"
IdleFetch ==
    /\ fURL = <<>> /\ fServer = <<>> /\ fStages = <<>> /\ fRequests = 0 /\ fRes = <<>>
IdleGen   == gConfigured = <<>> /\ gOutputDir = <<>> /\ gTitles = <<>> /\ gProject = <<>>
IdlePlanner == IdleTool /\ IdleName /\ IdleURL /\ IdleCall /\ IdleFetch /\ IdleGen

InitNormalize ==
    /\ data \in Inputs
    /\ out = NoResult
    /\ prev = NoResult
    /\ pass = 0
    /\ IdleFix /\ IdleID /\ IdleBuild /\ IdlePlanner

Normalize ==
    /\ pass = 0
    /\ out' = preprocessOpenAPISpec(data)
    /\ pass' = 1
    /\ UNCHANGED <<data, prev, fixVars, idVars, buildVars, plannerVars>>

NormalizeAgain ==
    /\ pass = 1
    /\ ~out.err
    /\ prev' = out
    /\ out' = preprocessOpenAPISpec(out.bytes)
    /\ pass' = 2
    /\ UNCHANGED <<data, fixVars, idVars, buildVars, plannerVars>>

NextNormalize == Normalize \/ NormalizeAgain

SpecNormalize == InitNormalize /\ [][NextNormalize]_vars

(***************************************************************************)
(* Reading a document tree: the schema nodes the claims speak about.       *)
(***************************************************************************)
\* the object-valued entries of components.schemas
CompSchemas(v) ==
    IF IsObj(v) /\ Has(v.o, "components") /\ IsObj(v.o["components"])
       /\ Has(v.o["components"].o, "schemas") /\ IsObj(v.o["components"].o["schemas"])
    THEN LET schemas == v.o["components"].o["schemas"].o
         IN  {schemas[n].o : n \in {k \in DOMAIN schemas : IsObj(schemas[k])}}
    ELSE {}

\* <<path, method, index>> of every operation parameter that has an object schema
ParamSlots(v) ==
    IF IsObj(v) /\ Has(v.o, "paths") /\ IsObj(v.o["paths"])
    THEN LET paths == v.o["paths"].o IN
         UNION {UNION {
             LET mv == paths[p].o[k] IN
             IF IsObj(mv) /\ Has(mv.o, "parameters") /\ IsArr(mv.o["parameters"])
             THEN {<<p, k, i>> : i \in {j \in 1..Len(mv.o["parameters"].a) :
                       /\ IsObj(mv.o["parameters"].a[j])
                       /\ Has(mv.o["parameters"].a[j].o, "schema")
                       /\ IsObj(mv.o["parameters"].a[j].o["schema"])}}
             ELSE {}
             : k \in DOMAIN paths[p].o}
           : p \in {q \in DOMAIN paths : IsObj(paths[q])}}
    ELSE {}

ParamSchemaAt(v, slot) ==
    v.o["paths"].o[slot[1]].o[slot[2]].o["parameters"].a[slot[3]].o["schema"].o

\* a schema object and every object reachable from it by `properties` entries and `items`
RECURSIVE Nodes(_)
Nodes(m) ==
    {m}
    \cup (IF Has(m, "properties") /\ IsObj(m["properties"])
          THEN UNION {Nodes(m["properties"].o[p].o) :
                        p \in {q \in DOMAIN m["properties"].o : IsObj(m["properties"].o[q])}}
          ELSE {})
    \cup (IF Has(m, "items") /\ IsObj(m["items"]) THEN Nodes(m["items"].o) ELSE {})

\* an anyOf of exactly two alternatives, one of them {type: "null"}
HoldsNullUnion(m) ==
    /\ Has(m, "anyOf")
    /\ IsArr(m["anyOf"])
    /\ Len(m["anyOf"].a) = 2
    /\ \E i \in 1..2 : m["anyOf"].a[i] = Obj(LNullT)

\* the input of the latest call and whether that call returned bytes
LastInput == IF pass = 2 THEN prev.bytes ELSE data
Returned  == pass >= 1 /\ ~out.err

(***************************************************************************)
(* Claims about the normalizer, checked under SpecNormalize.               *)
(***************************************************************************)

\* C1: after normalize returns successfully, no schema node of components.schemas
\* (each entry and every node reachable from it through properties and items) and
\* no operation parameter schema holds an anyOf of exactly two alternatives one of
\* which is {type: "null"}.
C1_NoNullUnionLeft ==
    Returned =>
        /\ \A s \in CompSchemas(out.bytes.json) : \A n \in Nodes(s) : ~HoldsNullUnion(n)
        /\ \A slot \in ParamSlots(out.bytes.json) :
               ~HoldsNullUnion(ParamSchemaAt(out.bytes.json, slot))

\* C3: after normalize, no schema object of components.schemas reachable through
\* properties entries and items has a deny-listed key, while an operation parameter's
\* schema keeps those keys: it receives the anyOf-null fixup and nothing else.
C3_DenyListStripped ==
    Returned =>
        /\ \A s \in CompSchemas(out.bytes.json) : \A n \in Nodes(s) :
               (DOMAIN n) \cap {"error_messages", "hide_error_details"} = {}
        /\ \A slot \in ParamSlots(LastInput.json) :
               /\ slot \in ParamSlots(out.bytes.json)
               /\ \A f \in {"error_messages", "hide_error_details"} :
                      Has(ParamSchemaAt(LastInput.json, slot), f)
                          => Has(ParamSchemaAt(out.bytes.json, slot), f)
               /\ ParamSchemaAt(out.bytes.json, slot)
                      = fixAnyOf(ParamSchemaAt(LastInput.json, slot))

\* C3 witness: a returned call whose input had a deny-listed key below an `items`
\* link in components.schemas and a deny-listed key on a parameter schema.
C3_Witness ==
    /\ pass = 1 /\ ~out.err
    /\ \E s \in CompSchemas(data.json) :
           /\ Has(s, "items") /\ IsObj(s["items"])
           /\ \E n \in Nodes(s["items"].o) : Has(n, "error_messages")
    /\ \E slot \in ParamSlots(data.json) :
           /\ Has(ParamSchemaAt(data.json, slot), "error_messages")
           /\ Has(ParamSchemaAt(out.bytes.json, slot), "error_messages")

\* the text begins with the three characters 3 . 1
Begins31(s) == Len(s) >= 3 /\ s[1] = "3" /\ s[2] = "." /\ s[3] = "1"

\* the same JSON value: numbers are compared by value (3.10 is 3.1), not as written
NumberTexts == {<<<<"3", ".", "1">>, <<"3", ".", "1", "0">>>>, <<<<"3">>, <<"3", ".", "0">>>>}
SameNumber(s, u) == s = u \/ <<s, u>> \in NumberTexts \/ <<u, s>> \in NumberTexts
RECURSIVE SameValue(_, _)
SameValue(x, y) ==
    /\ x.t = y.t
    /\ x.t = "number" => SameNumber(x.s, y.s)
    /\ x.t \in {"string", "bool"} => x.s = y.s
    /\ x.t = "array" => /\ Len(x.a) = Len(y.a)
                        /\ \A i \in 1..Len(x.a) : SameValue(x.a[i], y.a[i])
    /\ x.t = "object" => /\ DOMAIN x.o = DOMAIN y.o
                         /\ \A k \in DOMAIN x.o : SameValue(x.o[k], y.o[k])

\* C4: normalize rewrites the top-level openapi field to "3.0.0" exactly when it is
\* a string beginning with "3.1"; any other value, a non-string value or an absent
\* key is left as it was.
C4_VersionRewrite ==
    (Returned /\ IsObj(LastInput.json)) =>
        LET i == LastInput.json.o
            o == out.bytes.json.o
        IN  IF Has(i, "openapi") /\ i["openapi"].t = "string" /\ Begins31(i["openapi"].s)
            THEN Has(o, "openapi") /\ o["openapi"] = Str(<<"3", ".", "0", ".", "0">>)
            ELSE /\ Has(o, "openapi") <=> Has(i, "openapi")
                 /\ Has(i, "openapi") => SameValue(o["openapi"], i["openapi"])

\* C4 witness: the version string "3.1" itself was rewritten to "3.0.0".
C4_Witness ==
    /\ pass = 1 /\ ~out.err
    /\ IsObj(data.json) /\ Has(data.json.o, "openapi")
    /\ data.json.o["openapi"] = Str(<<"3", ".", "1">>)
    /\ out.bytes.json.o["openapi"] = Str(<<"3", ".", "0", ".", "0">>)

\* C4 witness: the number 3.1, not being a string, was left as it was.
C4_WitnessNumber ==
    /\ pass = 1 /\ ~out.err
    /\ IsObj(data.json) /\ Has(data.json.o, "openapi")
    /\ data.json.o["openapi"] = Num(<<"3", ".", "1">>)
    /\ out.bytes.json.o["openapi"] = Num(<<"3", ".", "1">>)

\* C5: normalize is idempotent: normalizing the output of a successful call returns
\* that output again (same tree, same bytes).
C5_Idempotent ==
    pass = 2 => (out = prev)

\* C5 witness: a second call on the output of a first call that only rewrote the text
\* (white space, key order, the number 3.10 written as 3.1): a document on which
\* the fixups had nothing to do.
C5_WitnessNoOp ==
    /\ pass = 2
    /\ ~data.compact
    /\ SameValue(prev.bytes.json, data.json)
    /\ prev.bytes # data

\* C5 witness: a second call was made on a document whose first call changed it and
\* whose property held a null-union with a null-union inside its non-null
\* alternative, next to deny-listed fields.
C5_Witness ==
    /\ pass = 2
    /\ prev.bytes # data
    /\ \E s \in CompSchemas(data.json) :
           /\ Has(s, "properties") /\ IsObj(s["properties"])
           /\ \E p \in DOMAIN s["properties"].o :
                  LET q == s["properties"].o[p] IN
                  /\ IsObj(q) /\ HoldsNullUnion(q.o)
                  /\ \E i \in 1..2 :
                         /\ HoldsNullUnion(q.o["anyOf"].a[i].o)
                         /\ Has(q.o["anyOf"].a[i].o, "error_messages")

\* C6 (as claimed): normalize returns an error if and only if the input bytes are
\* not valid JSON; every valid JSON input, whatever its top-level value, gives bytes.
C6_ErrorIffNotJSON ==
    pass = 1 => (out.err <=> ~data.valid)

\* C6 (amended): normalize returns an error if and only if the input bytes are not
\* valid JSON or their top-level value is neither an object nor null; absent or
\* wrongly typed components, schemas, paths, parameters and schema keys never fail.
C6_ErrorIffNotObject ==
    pass >= 1 => (out.err <=> (~LastInput.valid \/ LastInput.json.t \notin {"object", "null"}))

\* C6 witness: a valid JSON array was rejected, and a document whose `components`
\* and `paths` are strings was accepted.
C6_WitnessArray ==
    pass = 1 /\ data.valid /\ data.json.t = "array" /\ out.err

C6_Witness ==
    /\ pass = 1 /\ ~out.err /\ data.valid
    /\ IsObj(data.json) /\ Has(data.json.o, "components")
    /\ data.json.o["components"].t = "string"

(***************************************************************************)
(* Specification of fixAnyOf alone: one call on one schema object.         *)
(***************************************************************************)
InitFixAnyOf ==
    /\ schema \in Schemas
    /\ fixed = EmptyMap
    /\ fpc = "start"
    /\ IdleNorm /\ IdleID /\ IdleBuild /\ IdlePlanner

ApplyFixAnyOf ==
    /\ fpc = "start"
    /\ fixed' = fixAnyOf(schema)
    /\ fpc' = "done"
    /\ UNCHANGED <<schema, normVars, idVars, buildVars, plannerVars>>

NextFixAnyOf == ApplyFixAnyOf

SpecFixAnyOf == InitFixAnyOf /\ [][NextFixAnyOf]_vars

\* the anyOf of m has exactly two members, {type: X, ...} and {type: "null"}, in
\* either order, X a string other than "null"
IsXMember(v) ==
    /\ v.t = "object"
    /\ "type" \in DOMAIN v.o
    /\ v.o["type"].t = "string"
    /\ v.o["type"].s # <<"n", "u", "l", "l">>

IsNullMember(v) == v = Obj([type |-> Str(<<"n", "u", "l", "l">>)])

TwoBranchNullUnion(m) ==
    /\ "anyOf" \in DOMAIN m
    /\ m["anyOf"].t = "array"
    /\ Len(m["anyOf"].a) = 2
    /\ \/ IsXMember(m["anyOf"].a[1]) /\ IsNullMember(m["anyOf"].a[2])
       \/ IsNullMember(m["anyOf"].a[1]) /\ IsXMember(m["anyOf"].a[2])

XMember(m) ==
    IF IsXMember(m["anyOf"].a[1]) THEN m["anyOf"].a[1].o ELSE m["anyOf"].a[2].o

\* C2 (as claimed): for a schema S with a two-member anyOf {type: X, ...} and
\* {type: "null"}, fixAnyOf leaves S without anyOf, with nullable = true, with every
\* key of the X member carrying that member's value, and with its other keys unchanged.
C2_AllMemberKeysCopied ==
    (fpc = "done" /\ TwoBranchNullUnion(schema)) =>
        LET x == XMember(schema) IN
        /\ ~Has(fixed, "anyOf")
        /\ Has(fixed, "nullable") /\ fixed["nullable"] = True
        /\ \A k \in DOMAIN x : Has(fixed, k) /\ fixed[k] = x[k]
        /\ \A k \in (DOMAIN schema) \ ((DOMAIN x) \cup {"anyOf", "nullable"}) :
               Has(fixed, k) /\ fixed[k] = schema[k]

\* C2 (amended): as above, for every key of the X member other than `anyOf` and
\* `nullable`: the result never has an anyOf and its nullable is always true, also
\* when the X member defines those two keys itself.  The result has no other keys.
C2_MemberKeysCopied ==
    (fpc = "done" /\ TwoBranchNullUnion(schema)) =>
        LET x == XMember(schema) IN
        /\ ~Has(fixed, "anyOf")
        /\ Has(fixed, "nullable") /\ fixed["nullable"] = True
        /\ \A k \in (DOMAIN x) \ {"anyOf", "nullable"} : Has(fixed, k) /\ fixed[k] = x[k]
        /\ \A k \in (DOMAIN schema) \ ((DOMAIN x) \cup {"anyOf", "nullable"}) :
               Has(fixed, k) /\ fixed[k] = schema[k]
        /\ DOMAIN fixed = (((DOMAIN schema) \cup (DOMAIN x)) \ {"anyOf"}) \cup {"nullable"}

\* C2 witness: fixAnyOf ran on {anyOf: [null, X], type, description, ...} whose X
\* member has its own anyOf and a type that replaced the schema's type.
C2_Witness ==
    /\ fpc = "done"
    /\ TwoBranchNullUnion(schema)
    /\ IsNullMember(schema["anyOf"].a[1])
    /\ Has(XMember(schema), "anyOf")
    /\ Has(XMember(schema), "description")
    /\ fixed # schema

(***************************************************************************)
(* Tool identifiers: sanitizePathForToolID.                                *)
(***************************************************************************)
LowerLetters == <<"a", "b", "c", "d", "e", "f", "g", "h", "i", "j", "k", "l", "m",
                  "n", "o", "p", "q", "r", "s", "t", "u", "v", "w", "x", "y", "z">>
UpperLetters == <<"A", "B", "C", "D", "E", "F", "G", "H", "I", "J", "K", "L", "M",
                  "N", "O", "P", "Q", "R", "S", "T", "U", "V", "W", "X", "Y", "Z">>
Digits == {"0", "1", "2", "3", "4", "5", "6", "7", "8", "9"}

Range(f) == {f[i] : i \in DOMAIN f}
IndexOf(f, c) == CHOOSE i \in DOMAIN f : f[i] = c

\* unicode.ToLower / unicode.ToTitle on one rune
ToLowerRune(c) == IF c \in Range(UpperLetters) THEN LowerLetters[IndexOf(UpperLetters, c)] ELSE c
ToTitleRune(c) == IF c \in Range(LowerLetters) THEN UpperLetters[IndexOf(LowerLetters, c)] ELSE c

\* strings.ToLower
ToLower(s) == [i \in 1..Len(s) |-> ToLowerRune(s[i])]

\* strings.ReplaceAll(s, old, new) for a one-rune old
RECURSIVE ReplaceAll(_, _, _)
ReplaceAll(s, old, new) ==
    IF s = <<>> THEN <<>>
    ELSE (IF Head(s) = old THEN new ELSE <<Head(s)>>) \o ReplaceAll(Tail(s), old, new)

\* strings.TrimPrefix / strings.TrimLeft
TrimPrefix(s, p) == IF HasPrefix(s, p) THEN SubSeq(s, Len(p) + 1, Len(s)) ELSE s

RECURSIVE TrimLeft(_, _)
TrimLeft(s, c) == IF s # <<>> /\ Head(s) = c THEN TrimLeft(Tail(s), c) ELSE s

\* strings.isSeparator: ASCII letters, digits and underscore are not separators,
\* every other ASCII rune is
isSeparator(c) == c \notin Range(LowerLetters) \cup Range(UpperLetters) \cup Digits \cup {"_"}

\* strings.Title: Map with prev starting as ' '; a rune after a separator is title-cased
RECURSIVE TitleFrom(_, _)
TitleFrom(prv, s) ==
    IF s = <<>> THEN <<>>
    ELSE <<IF isSeparator(prv) THEN ToTitleRune(Head(s)) ELSE Head(s)>>
         \o TitleFrom(Head(s), Tail(s))

Title(s) == TitleFrom(" ", s)

sanitizePathForToolIDTrimAll(p, m) ==
    ToLower(m) \o Title(TrimLeft(
        ReplaceAll(ReplaceAll(ReplaceAll(ReplaceAll(p, "{", <<>>), "}", <<>>),
                              "/", <<"_">>), "-", <<"_">>), "_"))

sanitizePathForToolID(p, m) ==
    LET s1 == ReplaceAll(p, "{", <<>>)
        s2 == ReplaceAll(s1, "}", <<>>)
        s3 == ReplaceAll(s2, "/", <<"_">>)
        s4 == ReplaceAll(s3, "-", <<"_">>)
        s5 == TrimPrefix(s4, <<"_">>)
    IN  ToLower(m) \o Title(s5)

PathAlphabet == {"a", "B", "/", "-", "{", "}", "_", ".", "1"}

RECURSIVE SeqsUpTo(_, _)
SeqsUpTo(A, n) ==
    IF n = 0 THEN {<<>>}
    ELSE LET shorter == SeqsUpTo(A, n - 1)
         IN  shorter \cup {Append(s, c) : s \in shorter, c \in A}

mGET    == <<"G", "E", "T">>
mPOST   == <<"P", "O", "S", "T">>
mDELETE == <<"D", "E", "L", "E", "T", "E">>

pUsersId      == <<"/", "u", "s", "e", "r", "s", "/", "{", "i", "d", "}">>
pOrders       == <<"/", "o", "r", "d", "e", "r", "s">>
pABC          == <<"/", "a", "-", "b", "/", "{", "c", "}">>
pUsersIdPosts == <<"/", "u", "s", "e", "r", "s", "/", "{", "i", "d", "}",
                   "/", "p", "o", "s", "t", "s">>

IDPaths   == SeqsUpTo(PathAlphabet, MaxPathLen) \cup {pUsersId, pOrders, pABC, pUsersIdPosts}
IDMethods == {mGET, mPOST, mDELETE}

InitToolID ==
    /\ path \in IDPaths
    /\ method \in IDMethods
    /\ toolID = <<>>
    /\ tpc = "start"
    /\ IdleNorm /\ IdleFix /\ IdleBuild /\ IdlePlanner

DeriveToolID ==
    /\ tpc = "start"
    /\ toolID' = sanitizePathForToolID(path, method)
    /\ tpc' = "done"
    /\ UNCHANGED <<path, method, normVars, fixVars, buildVars, plannerVars>>

NextToolID == DeriveToolID

SpecToolID == InitToolID /\ [][NextToolID]_vars

\* the path without `{` and `}`, with `/` and `-` turned into `_`, in one pass
Cleaned(p) ==
    LET kept == SelectSeq(p, LAMBDA c : c \notin {"{", "}"})
    IN  [i \in 1..Len(kept) |-> IF kept[i] \in {"/", "-"} THEN "_" ELSE kept[i]]

DropOneUnderscore(s) == IF Len(s) > 0 /\ s[1] = "_" THEN SubSeq(s, 2, Len(s)) ELSE s

WordChar(c) == \/ \E i \in 1..26 : c = LowerLetters[i] \/ c = UpperLetters[i]
               \/ c \in Digits
               \/ c = "_"

\* every letter that begins a word is upper-cased; a word is a run of letters,
\* digits and underscores
TitleCased(s) ==
    [i \in 1..Len(s) |->
        IF (i = 1 \/ ~WordChar(s[i - 1])) /\ \E j \in 1..26 : s[i] = LowerLetters[j]
        THEN UpperLetters[CHOOSE j \in 1..26 : s[i] = LowerLetters[j]]
        ELSE s[i]]

LowerCased(s) ==
    [i \in 1..Len(s) |->
        IF \E j \in 1..26 : s[i] = UpperLetters[j]
        THEN LowerLetters[CHOOSE j \in 1..26 : s[i] = UpperLetters[j]]
        ELSE s[i]]

\* C7: the tool id is lower(method) followed by the title-cased path after removing
\* every `{` and `}`, replacing every `/` and `-` by `_` and trimming one leading `_`;
\* GET /users/{id} gives getUsers_id, POST /orders gives postOrders and
\* DELETE /a-b/{c} gives deleteA_b_c.
C7_ToolIDDerivation ==
    tpc = "done" =>
        /\ toolID = LowerCased(method) \o TitleCased(DropOneUnderscore(Cleaned(path)))
        /\ (path = pUsersId /\ method = mGET)
              => toolID = <<"g", "e", "t", "U", "s", "e", "r", "s", "_", "i", "d">>
        /\ (path = pOrders /\ method = mPOST)
              => toolID = <<"p", "o", "s", "t", "O", "r", "d", "e", "r", "s">>
        /\ (path = pABC /\ method = mDELETE)
              => toolID = <<"d", "e", "l", "e", "t", "e", "A", "_", "b", "_", "c">>

\* C7 witness: the id of DELETE /a-b/{c} was derived.
C7_Witness ==
    /\ tpc = "done" /\ path = pABC /\ method = mDELETE
    /\ toolID = <<"d", "e", "l", "e", "t", "e", "A", "_", "b", "_", "c">>

\* C8: the tool id derived for GET /users/{id}/posts is exactly "getUsers_idPosts".
C8_UsersIdPosts ==
    (tpc = "done" /\ path = pUsersIdPosts /\ method = mGET) =>
        toolID = <<"g", "e", "t", "U", "s", "e", "r", "s", "_", "i", "d",
                   "P", "o", "s", "t", "s">>

(***************************************************************************)
(* Building the tools: processPathsIntoTools and generateServerCode.       *)
(* Both range over doc.Paths.Map() and pathItem.Operations(), which are Go *)
(* maps: the order of a range over a map is not specified, so each call    *)
(* takes any order of the paths and any order of each path's methods.      *)
(***************************************************************************)
pA_B  == <<"/", "a", "-", "b">>
pA_B2 == <<"/", "a", "_", "b">>
pC    == <<"/", "c">>

BuildPaths   == {pA_B, pA_B2, pC}
MethodLists  == {<<mGET>>, <<mPOST>>, <<mGET, mPOST>>, <<mPOST, mGET>>}
MaxMethods   == 2

Injective(s) == \A i, j \in DOMAIN s : i # j => s[i] # s[j]

\* documents: path items in declaration order, each with its methods in declaration order
PathSeqs == {s \in SeqsUpTo(BuildPaths, MaxPaths) : Injective(s)}
Documents ==
    UNION {{[i \in 1..Len(ps) |-> [path |-> ps[i], methods |-> ms[i]]] :
                ms \in [1..Len(ps) -> MethodLists]} : ps \in PathSeqs}

\* the orders a pair of nested range loops can take over d
PathOrders(d)   == Permutations(1..Len(d))
MethodOrders(d) ==
    {f \in [1..Len(d) -> UNION {Permutations(1..k) : k \in 1..MaxMethods}] :
        \A i \in 1..Len(d) : DOMAIN f[i] = 1..Len(d[i].methods)}

\* the operations met by the loops under path order po and method orders mo
RECURSIVE Walk(_, _, _, _)
Walk(d, po, mo, i) ==
    IF i > Len(d) THEN <<>>
    ELSE LET item == d[po[i]]
         IN  [j \in 1..Len(item.methods) |->
                 [path |-> item.path, method |-> item.methods[mo[po[i]][j]]]]
             \o Walk(d, po, mo, i + 1)

\* s.AddTool(tool, handler) for each operation met: the registry holds one tool per
\* name, a later tool of the same name replacing the earlier one
RECURSIVE Register(_, _)
Register(reg, ops) ==
    IF ops = <<>> THEN reg
    ELSE Register(Put(reg, sanitizePathForToolID(Head(ops).path, Head(ops).method), Head(ops)),
                  Tail(ops))

\* tb.WriteToolDefinition for each operation met: one `def <toolID>(...)` appended
Emit(ops) ==
    [i \in 1..Len(ops) |->
        [name |-> sanitizePathForToolID(ops[i].path, ops[i].method),
         path |-> ops[i].path, method |-> ops[i].method]]

InitBuild ==
    /\ doc \in Documents
    /\ visited = <<>>
    /\ tools = <<>>
    /\ emitted = <<>>
    /\ bpc = "start"
    /\ IdleNorm /\ IdleFix /\ IdleID /\ IdlePlanner

processPathsIntoTools ==
    /\ bpc = "start"
    /\ \E po \in PathOrders(doc), mo \in MethodOrders(doc) :
           /\ visited' = Walk(doc, po, mo, 1)
           /\ tools' = Register(EmptyMap, Walk(doc, po, mo, 1))
    /\ bpc' = "tools"
    /\ UNCHANGED <<doc, emitted, normVars, fixVars, idVars, plannerVars>>

generateServerCode ==
    /\ bpc = "tools"
    /\ \E po \in PathOrders(doc), mo \in MethodOrders(doc) :
           emitted' = Emit(Walk(doc, po, mo, 1))
    /\ bpc' = "done"
    /\ UNCHANGED <<doc, visited, tools, normVars, fixVars, idVars, plannerVars>>

NextBuild == processPathsIntoTools \/ generateServerCode

SpecBuild == InitBuild /\ [][NextBuild]_vars

\* the operations of the document in declaration order
RECURSIVE Declared(_)
Declared(d) ==
    IF d = <<>> THEN <<>>
    ELSE [j \in 1..Len(Head(d).methods) |->
             [path |-> Head(d).path, method |-> Head(d).methods[j]]]
         \o Declared(Tail(d))

\* C9: within one document tool ids are unique: no two distinct (path, method)
\* operations derive the same id, so no registered tool replaces another and no
\* emitted function redefines another.
C9_ToolIDsUnique ==
    /\ bpc \in {"tools", "done"} =>
           /\ \A i, j \in 1..Len(visited) :
                  i # j => sanitizePathForToolID(visited[i].path, visited[i].method)
                           # sanitizePathForToolID(visited[j].path, visited[j].method)
           /\ Cardinality(DOMAIN tools) = Len(Declared(doc))
    /\ bpc = "done" =>
           \A i, j \in 1..Len(emitted) : i # j => emitted[i].name # emitted[j].name

\* C10: building the tools is order-stable: processPathsIntoTools and
\* generateServerCode visit the operations in the document's declaration order, so
\* any two runs over the same document produce the same sequence of tools.
C10_DeclarationOrder ==
    /\ bpc \in {"tools", "done"} => visited = Declared(doc)
    /\ bpc = "done" => emitted = Emit(Declared(doc))

(***************************************************************************)
(* Parameter names: sanitizeParamName.                                     *)
(***************************************************************************)
\* unicode.IsLetter / unicode.IsDigit on the runes the model uses
IsLetter(c) == c \in Range(LowerLetters) \cup Range(UpperLetters) \cup {"é"}
IsDigit(c)  == c \in Digits

\* strings.ReplaceAll(name, "-", "_") then strings.Map: every rune that is not a
\* letter, a digit or `_` becomes `_`
sanitizeParamName(name) ==
    LET hyphens == ReplaceAll(name, "-", <<"_">>)
    IN  [i \in 1..Len(hyphens) |->
            IF IsLetter(hyphens[i]) \/ IsDigit(hyphens[i]) \/ hyphens[i] = "_"
            THEN hyphens[i] ELSE "_"]

(***************************************************************************)
(* One operation turned into a tool: the mcp.Tool processPathsIntoTools    *)
(* registers, and the function WriteToolDefinition writes.                 *)
(***************************************************************************)
\* at most this many parameters are declared by an operation
MaxParams == 2

nUid  == <<"u", "-", "i", "d">>
nPage == <<"p", "a", "g", "e">>
nRate == <<"r", "a", "t", "e">>
nDry  == <<"d", "r", "y">>
nRaw  == <<"r", "a", "w">>
nTags == <<"t", "a", "g", "s">>
nBody == <<"b", "o", "d", "y">>

sSummary == <<"S", "u", "m">>
sDescr   == <<"D", "e", "s", "c">>
sRequestBody == <<"R", "e", "q", "u", "e", "s", "t", " ", "b", "o", "d", "y">>

\* *openapi3.ParameterRef: value is FALSE for a reference without a Value; type is
\* Schema.Value.Type, "none" standing for a parameter without a schema
Param(n, loc, rq, ty, en) ==
    [value |-> TRUE, name |-> n, in |-> loc, required |-> rq, type |-> ty,
     description |-> IF ty = "boolean" THEN sDescr ELSE <<>>, enum |-> en]

NilParam ==
    [value |-> FALSE, name |-> <<>>, in |-> "", required |-> FALSE, type |-> "none",
     description |-> <<>>, enum |-> <<>>]

ToolParams ==
    {Param(nUid,  "path",   TRUE,  "string",  <<Str(<<"x">>), Num(<<"1">>)>>),
     Param(nPage, "query",  FALSE, "integer", <<>>),
     Param(nRate, "query",  TRUE,  "number",  <<>>),
     Param(nDry,  "header", FALSE, "boolean", <<>>),
     Param(nRaw,  "query",  FALSE, "none",    <<>>),
     Param(nTags, "query",  TRUE,  "array",   <<>>),
     NilParam}

\* op.RequestBody: content maps a media type to whether it carries a schema
NoRequestBody == [present |-> FALSE, required |-> FALSE, description |-> <<>>,
                  content |-> [m \in {} |-> FALSE]]
RequestBody(rq, d, c) == [present |-> TRUE, required |-> rq, description |-> d, content |-> c]

RequestBodies ==
    {NoRequestBody,
     RequestBody(TRUE,  <<>>,   [m \in {"application/json"} |-> TRUE]),
     RequestBody(FALSE, sDescr, [m \in {"application/json"} |-> TRUE]),
     RequestBody(TRUE,  <<>>,   [m \in {"text/plain"} |-> FALSE]),
     RequestBody(FALSE, <<>>,   [m \in {"text/plain"} |-> FALSE]),
     RequestBody(TRUE,  <<>>,   [m \in {"text/plain", "application/json"} |->
                                    m = "application/json"])}

Operations ==
    [path : {pC}, method : {mGET, mPOST},
     summary : {<<>>, sSummary}, description : {<<>>, sDescr},
     parameters : {ps \in SeqsUpTo(ToolParams, MaxParams) : Injective(ps)},
     requestBody : RequestBodies]

\* mcp.NewTool(toolID, mcp.WithDescription(toolDesc))
NewTool(id, desc) ==
    [name |-> id, description |-> desc, properties |-> [n \in {} |-> <<>>],
     required |-> <<>>]

\* mcp.WithString / WithNumber / WithBoolean: the property is stored under its name
\* and a property carrying mcp.Required() is appended to the tool's required list
WithProperty(tool, n, ty, rq, desc, en) ==
    [tool EXCEPT
        !.properties = Put(tool.properties, n,
                           [type |-> ty, description |-> desc, enum |-> en]),
        !.required   = IF rq THEN Append(tool.required, n) ELSE tool.required]

\* the string members of schema.Enum
enumValues(en) == SelectSeq(en, IsStr)

\* the switch on schema.Type: integer and number both go to mcp.WithNumber
liveType(ty) ==
    CASE ty = "string"                 -> "string"
      [] ty \in {"integer", "number"}  -> "number"
      [] ty = "boolean"                -> "boolean"
      [] OTHER                         -> "string"

\* the parameter loop of processPathsIntoTools
RECURSIVE liveParams(_, _)
liveParams(tool, ps) ==
    IF ps = <<>> THEN tool
    ELSE LET p == Head(ps)
         IN  IF ~p.value \/ p.type = "none" THEN liveParams(tool, Tail(ps))
             ELSE liveParams(
                      WithProperty(tool, p.name, liveType(p.type), p.required,
                                   p.description,
                                   IF p.type = "string" THEN enumValues(p.enum) ELSE <<>>),
                      Tail(ps))

\* the request body block of processPathsIntoTools: the first media type with a
\* schema adds the string property `body`, then the loop breaks
liveBody(tool, rb) ==
    IF rb.present /\ \E m \in DOMAIN rb.content : rb.content[m]
    THEN WithProperty(tool, nBody, "string", rb.required,
                      IF rb.description # <<>> THEN rb.description ELSE sRequestBody, <<>>)
    ELSE tool

\* the tool processPathsIntoTools builds for one operation
liveTool(o) ==
    LET toolDesc == IF o.summary = <<>> THEN o.description ELSE o.summary
    IN  liveBody(liveParams(NewTool(sanitizePathForToolID(o.path, o.method), toolDesc),
                            o.parameters),
                 o.requestBody)

\* the parameters with a Value
Resolved(ps) == SelectSeq(ps, LAMBDA p : p.value)

\* the Python type written for a parameter
pyType(ty) ==
    CASE ty = "integer" -> "int"
      [] ty = "number"  -> "float"
      [] ty = "boolean" -> "bool"
      [] OTHER          -> "str"

\* buildParameterLists in declaration order: every parameter with a Value, named by
\* sanitizeParamName, then `body` when the operation has a requestBody
declaredParameterList(o) ==
    LET ps == Resolved(o.parameters)
    IN  [i \in 1..Len(ps) |->
            [name |-> sanitizeParamName(ps[i].name), type |-> pyType(ps[i].type),
             required |-> ps[i].required]]
        \o (IF o.requestBody.present
            THEN <<[name |-> nBody, type |-> "Union", required |-> o.requestBody.required]>>
            ELSE <<>>)

buildParameterListsUnpartitioned(o) == declaredParameterList(o)

\* buildParameterLists followed by append(requiredParams, optionalParams...)
buildParameterLists(o) ==
    SelectSeq(declaredParameterList(o), LAMBDA p : p.required)
    \o SelectSeq(declaredParameterList(o), LAMBDA p : ~p.required)

\* writeParametersDictionary: params["<name>"] = <sanitized name> for every parameter
writeParametersDictionary(o) ==
    LET ps == Resolved(o.parameters)
    IN  [i \in 1..Len(ps) |-> [key |-> ps[i].name, var |-> sanitizeParamName(ps[i].name)]]

\* writeHeadersSetup: headers["<name>"] = str(<sanitized name>) for header parameters
writeHeadersSetup(o) ==
    LET ps == SelectSeq(Resolved(o.parameters), LAMBDA p : p.in = "header")
    IN  [i \in 1..Len(ps) |-> [key |-> ps[i].name, var |-> sanitizeParamName(ps[i].name)]]

\* writeRequestCode: the body is passed unless the method is GET or there is no
\* requestBody
writeRequestCode(o) == o.method # mGET /\ o.requestBody.present

\* the function WriteToolDefinition writes for one operation
WriteToolDefinition(o) ==
    LET description ==
            IF o.summary # <<>> THEN o.summary
            ELSE IF o.description # <<>> THEN o.description
            ELSE o.method \o <<" ">> \o o.path
    IN  [name |-> sanitizePathForToolID(o.path, o.method),
         description |-> description,
         params |-> buildParameterLists(o),
         dict |-> writeParametersDictionary(o),
         headers |-> writeHeadersSetup(o),
         sendsBody |-> writeRequestCode(o)]

InitTool ==
    /\ op \in Operations
    /\ live = <<>>
    /\ py = <<>>
    /\ opc = "start"
    /\ IdleNorm /\ IdleFix /\ IdleID /\ IdleBuild /\ IdleName /\ IdleURL /\ IdleCall
    /\ IdleFetch /\ IdleGen

\* processPathsIntoTools reaches the operation
BuildLiveTool ==
    /\ opc = "start"
    /\ live' = liveTool(op)
    /\ opc' = "live"
    /\ UNCHANGED <<op, py, normVars, fixVars, idVars, buildVars, nameVars, urlVars, callVars,
                   fetchVars, genVars>>

\* generateServerCode reaches the operation
EmitToolDefinition ==
    /\ opc = "live"
    /\ py' = WriteToolDefinition(op)
    /\ opc' = "done"
    /\ UNCHANGED <<op, live, normVars, fixVars, idVars, buildVars, nameVars, urlVars,
                   callVars,
                   fetchVars, genVars>>

NextTool == BuildLiveTool \/ EmitToolDefinition

SpecTool == InitTool /\ [][NextTool]_vars

\* the description an operation's tool is claimed to carry
ExpectedDescription(o) ==
    IF o.summary # <<>> THEN o.summary
    ELSE IF o.description # <<>> THEN o.description
    ELSE o.method \o <<" ">> \o o.path

\* C11: a tool's description is the operation's summary if non-empty, otherwise its
\* description if non-empty, otherwise "<METHOD> <path>"; this holds for the tool
\* registered on the live server and for the emitted function alike, and the
\* description is never empty.
C11_Description ==
    /\ opc \in {"live", "done"} =>
           live.description = ExpectedDescription(op) /\ live.description # <<>>
    /\ opc = "done" =>
           py.description = ExpectedDescription(op) /\ py.description # <<>>

\* position of a parameter in the operation's declaration, `body` after all of them
DeclIndex(o, n) ==
    IF \E i \in 1..Len(o.parameters) : o.parameters[i].value /\ o.parameters[i].name = n
    THEN CHOOSE i \in 1..Len(o.parameters) : o.parameters[i].value /\ o.parameters[i].name = n
    ELSE Len(o.parameters) + 1

PyDeclIndex(o, n) ==
    IF \E i \in 1..Len(o.parameters) :
           o.parameters[i].value /\ sanitizeParamName(o.parameters[i].name) = n
    THEN CHOOSE i \in 1..Len(o.parameters) :
             o.parameters[i].value /\ sanitizeParamName(o.parameters[i].name) = n
    ELSE Len(o.parameters) + 1

\* C12: the parameter list of a tool is a stable partition of the declared
\* parameters: in the emitted signature every required parameter comes before every
\* optional one and each group keeps declaration order, with `body`, when present,
\* last in the group matching requestBody.required; the live tool's required list
\* keeps declaration order with `body` last.
C12_StablePartition ==
    /\ opc = "done" =>
           /\ \A i, j \in 1..Len(py.params) :
                  i < j => (py.params[i].required \/ ~py.params[j].required)
           /\ \A i, j \in 1..Len(py.params) :
                  (i < j /\ py.params[i].required = py.params[j].required)
                      => PyDeclIndex(op, py.params[i].name) < PyDeclIndex(op, py.params[j].name)
           /\ {py.params[i].name : i \in 1..Len(py.params)} \ {nBody}
                  = {sanitizeParamName(op.parameters[i].name) :
                         i \in {k \in 1..Len(op.parameters) : op.parameters[k].value}}
           /\ \A k \in 1..Len(py.params) :
                  py.params[k].name = nBody =>
                      /\ py.params[k].required = op.requestBody.required
                      /\ \A j \in 1..Len(py.params) :
                             j > k => py.params[j].required # py.params[k].required
    /\ opc \in {"live", "done"} =>
           \A i, j \in 1..Len(live.required) :
               i < j => DeclIndex(op, live.required[i]) < DeclIndex(op, live.required[j])

\* C12 witness: an optional parameter declared before a required one, with a
\* required body: the signature is rate, body, page.
C12_Witness ==
    /\ opc = "done"
    /\ Len(op.parameters) = 2
    /\ op.parameters[1].name = nPage /\ op.parameters[2].name = nRate
    /\ op.requestBody.present /\ op.requestBody.required
    /\ [i \in 1..Len(py.params) |-> py.params[i].name] = <<nRate, nBody, nPage>>
    /\ live.required = <<nRate, nBody>>

\* the operation declares a requestBody with a content entry whose schema is non-nil
DeclaresBody(o) ==
    o.requestBody.present /\ \E m \in DOMAIN o.requestBody.content : o.requestBody.content[m]

\* C13: a tool has a body parameter if and only if the operation declares a
\* requestBody with at least one content entry whose schema is non-nil; the body
\* parameter is required exactly when requestBody.required is true and there is at
\* most one; this holds for the live tool and for the emitted signature.
C13_BodyParameter ==
    /\ opc \in {"live", "done"} =>
           /\ (nBody \in DOMAIN live.properties) <=> DeclaresBody(op)
           /\ Cardinality({i \in 1..Len(live.required) : live.required[i] = nBody})
                  = IF DeclaresBody(op) /\ op.requestBody.required THEN 1 ELSE 0
    /\ opc = "done" =>
           LET bodies == {i \in 1..Len(py.params) : py.params[i].name = nBody}
           IN  /\ Cardinality(bodies) = IF DeclaresBody(op) THEN 1 ELSE 0
               /\ \A i \in bodies : py.params[i].required = op.requestBody.required

\* the primitive type a schema type is classified as
Classified(ty) == IF ty \in {"string", "integer", "number", "boolean"} THEN ty ELSE "string"

\* the primitive type a Python annotation stands for
PyPrimitive(ty) ==
    CASE ty = "int" -> "integer" [] ty = "float" -> "number" [] ty = "bool" -> "boolean"
      [] ty = "str" -> "string" [] OTHER -> "other"

\* C14: every declared parameter is classified with a primitive type: string to
\* string, integer to integer, number to number, boolean to boolean, any other or
\* absent type to string; integer is not merged with number and a parameter with no
\* schema is classified as string rather than dropped.
C14_Classification ==
    \A k \in 1..Len(op.parameters) :
        LET p == op.parameters[k]
        IN  p.value =>
              /\ opc \in {"live", "done"} =>
                     /\ p.name \in DOMAIN live.properties
                     /\ live.properties[p.name].type = Classified(p.type)
              /\ opc = "done" =>
                     \E i \in 1..Len(py.params) :
                         /\ py.params[i].name = sanitizeParamName(p.name)
                         /\ PyPrimitive(py.params[i].type) = Classified(p.type)

(***************************************************************************)
(* Specification of sanitizeParamName on one parameter name.  A parameter   *)
(* of a validated document has a non-empty name.                           *)
(***************************************************************************)
\* names are at most this long, the named examples aside
MaxNameLen == 3

NameAlphabet == {"a", "Z", "1", "-", ".", "_", " ", "é"}

nUserId == <<"u", "s", "e", "r", "-", "i", "d">>
nXY     == <<"x", ".", "y">>
n2fa    == <<"2", "f", "a">>

ParamNames == (SeqsUpTo(NameAlphabet, MaxNameLen) \ {<<>>}) \cup {nUserId, nXY, n2fa}

InitParamName ==
    /\ pname \in ParamNames
    /\ psan = <<>>
    /\ ppc = "start"
    /\ IdleNorm /\ IdleFix /\ IdleID /\ IdleBuild /\ IdleTool /\ IdleURL /\ IdleCall
    /\ IdleFetch /\ IdleGen

SanitizeParamName ==
    /\ ppc = "start"
    /\ psan' = sanitizeParamName(pname)
    /\ ppc' = "done"
    /\ UNCHANGED <<pname, normVars, fixVars, idVars, buildVars, toolVars, urlVars, callVars,
                   fetchVars, genVars>>

NextParamName == SanitizeParamName

SpecParamName == InitParamName /\ [][NextParamName]_vars

\* C15: the sanitized name has as many characters as the name, holds only letters,
\* digits and underscores, and is a valid identifier: non-empty and not starting
\* with a digit; "user-id" becomes "user_id" and "x.y" becomes "x_y".
C15_ValidIdentifier ==
    ppc = "done" =>
        /\ Len(psan) = Len(pname)
        /\ \A i \in 1..Len(psan) : IsLetter(psan[i]) \/ IsDigit(psan[i]) \/ psan[i] = "_"
        /\ psan # <<>>
        /\ ~IsDigit(psan[1])
        /\ pname = nUserId => psan = <<"u", "s", "e", "r", "_", "i", "d">>
        /\ pname = nXY => psan = <<"x", "_", "y">>

(***************************************************************************)
(* net/url as buildURL uses it: url.Parse, URL.Query, Values.Add,          *)
(* Values.Encode and URL.String, on URLs of the form scheme://host/...     *)
(* written with the characters of Ascii.                                   *)
(***************************************************************************)
\* the characters URLs are written with, in byte order
Ascii ==
    <<" ", "#", "%", "&", "+", "-", ".", "/">>
    \o <<"0", "1", "2", "3", "4", "5", "6", "7", "8", "9", ":", "=", "?">>
    \o UpperLetters \o <<"_">> \o LowerLetters \o <<"{", "}">>

Unreserved == Range(LowerLetters) \cup Range(UpperLetters) \cup Digits \cup {"-", "_", ".", "~"}

\* shouldEscape(c, mode) for mode in encodePath, encodeFragment, encodeQueryComponent
shouldEscape(c, mode) ==
    IF c \in Unreserved THEN FALSE
    ELSE IF c \in {"$", "&", "+", ",", "/", ":", ";", "=", "?", "@"}
         THEN (CASE mode = "path"     -> c = "?"
                 [] mode = "fragment" -> FALSE
                 [] OTHER             -> TRUE)
         ELSE TRUE

\* the two upper-case hex digits of a character's byte
Hex(c) ==
    CASE c = " " -> <<"2", "0">> [] c = "#" -> <<"2", "3">> [] c = "%" -> <<"2", "5">>
      [] c = "&" -> <<"2", "6">> [] c = "+" -> <<"2", "B">> [] c = "/" -> <<"2", "F">>
      [] c = ":" -> <<"3", "A">> [] c = "=" -> <<"3", "D">> [] c = "?" -> <<"3", "F">>
      [] c = "{" -> <<"7", "B">> [] c = "}" -> <<"7", "D">>

Escapable == {" ", "#", "%", "&", "+", "/", ":", "=", "?", "{", "}"}

ishex(c) == c \in Digits \cup {"A", "B", "C", "D", "E", "F", "a", "b", "c", "d", "e", "f"}

\* the character a %XX triplet of the model stands for
unhex(a, b) == CHOOSE c \in Escapable : Hex(c) = <<a, b>>

\* escape(s, mode)
RECURSIVE escape(_, _)
escape(s, mode) ==
    IF s = <<>> THEN <<>>
    ELSE (IF shouldEscape(Head(s), mode)
          THEN (IF Head(s) = " " /\ mode = "query" THEN <<"+">> ELSE <<"%">> \o Hex(Head(s)))
          ELSE <<Head(s)>>)
         \o escape(Tail(s), mode)

\* unescape(s, mode) fails on a `%` that two hex digits do not follow
RECURSIVE badEscape(_)
badEscape(s) ==
    IF s = <<>> THEN FALSE
    ELSE IF Head(s) = "%"
         THEN Len(s) < 3 \/ ~ishex(s[2]) \/ ~ishex(s[3]) \/ badEscape(SubSeq(s, 4, Len(s)))
         ELSE badEscape(Tail(s))

RECURSIVE unescape(_, _)
unescape(s, mode) ==
    IF s = <<>> THEN <<>>
    ELSE IF Head(s) = "%" THEN <<unhex(s[2], s[3])>> \o unescape(SubSeq(s, 4, Len(s)), mode)
    ELSE IF Head(s) = "+" /\ mode = "query" THEN <<" ">> \o unescape(Tail(s), mode)
    ELSE <<Head(s)>> \o unescape(Tail(s), mode)

\* validEncoded(s, mode)
validEncoded(s, mode) ==
    \A i \in 1..Len(s) :
        \/ s[i] \in {"!", "$", "&", "'", "(", ")", "*", "+", ",", ";", "=", ":", "@",
                     "[", "]", "%"}
        \/ ~shouldEscape(s[i], mode)

\* strings.Cut(s, sep) for a one-character sep
Contains(s, c) == \E i \in 1..Len(s) : s[i] = c
Before(s, c) ==
    IF Contains(s, c) THEN SubSeq(s, 1, (CHOOSE i \in 1..Len(s) :
                                   s[i] = c /\ \A j \in 1..(i - 1) : s[j] # c) - 1)
    ELSE s
After(s, c) == IF Contains(s, c) THEN SubSeq(s, Len(Before(s, c)) + 2, Len(s)) ELSE <<>>

\* url.Parse(rawURL) for rawURL = scheme://host/...: the fragment is cut at the
\* first `#`, the query at the first `?`, the authority ends at the next `/`, and
\* the rest is the path
Parse(rawURL) ==
    LET u        == Before(rawURL, "#")
        frag     == After(rawURL, "#")
        origin   == Before(u, ":") \o <<":", "/", "/">>
                    \o Before(SubSeq(After(u, ":"), 3, Len(After(u, ":"))), "/")
        rest0    == SubSeq(u, Len(origin) + 1, Len(u))
        force    == rest0 # <<>> /\ rest0[Len(rest0)] = "?"
                    /\ Cardinality({i \in 1..Len(rest0) : rest0[i] = "?"}) = 1
        rest     == IF force THEN SubSeq(rest0, 1, Len(rest0) - 1) ELSE Before(rest0, "?")
        rawquery == IF force THEN <<>> ELSE After(rest0, "?")
    IN  IF badEscape(rest) \/ badEscape(frag)
        THEN [err |-> TRUE, Origin |-> <<>>, Path |-> <<>>, RawPath |-> <<>>,
              ForceQuery |-> FALSE, RawQuery |-> <<>>, Fragment |-> <<>>,
              RawFragment |-> <<>>]
        ELSE [err |-> FALSE,
              Origin |-> origin,
              Path |-> unescape(rest, "path"),
              RawPath |-> IF escape(unescape(rest, "path"), "path") = rest
                          THEN <<>> ELSE rest,
              ForceQuery |-> force,
              RawQuery |-> rawquery,
              Fragment |-> unescape(frag, "fragment"),
              RawFragment |-> IF escape(unescape(frag, "fragment"), "fragment") = frag
                              THEN <<>> ELSE frag]

\* u.EscapedPath() and u.EscapedFragment()
EscapedPath(u) ==
    IF u.RawPath # <<>> /\ validEncoded(u.RawPath, "path")
       /\ ~badEscape(u.RawPath) /\ unescape(u.RawPath, "path") = u.Path
    THEN u.RawPath
    ELSE escape(u.Path, "path")

EscapedFragment(u) ==
    IF u.RawFragment # <<>> /\ validEncoded(u.RawFragment, "fragment")
       /\ ~badEscape(u.RawFragment) /\ unescape(u.RawFragment, "fragment") = u.Fragment
    THEN u.RawFragment
    ELSE escape(u.Fragment, "fragment")

\* u.String()
String(u) ==
    u.Origin \o EscapedPath(u)
    \o (IF u.ForceQuery \/ u.RawQuery # <<>> THEN <<"?">> \o u.RawQuery ELSE <<>>)
    \o (IF u.Fragment # <<>> THEN <<"#">> \o EscapedFragment(u) ELSE <<>>)

\* url.Values: a key's values in the order they were added
NoValues == [k \in {} |-> <<>>]

Add(q, k, v) == Put(q, k, IF Has(q, k) THEN Append(q[k], v) ELSE <<v>>)

\* u.Query(): the pairs of RawQuery, a pair that does not unescape being skipped
RECURSIVE parseQuery(_, _)
parseQuery(m, query) ==
    IF query = <<>> THEN m
    ELSE LET pair  == Before(query, "&")
             rest  == After(query, "&")
             key   == Before(pair, "=")
             value == After(pair, "=")
         IN  IF pair = <<>> \/ Contains(pair, ";") \/ badEscape(key) \/ badEscape(value)
             THEN parseQuery(m, rest)
             ELSE parseQuery(Add(m, unescape(key, "query"), unescape(value, "query")), rest)

\* byte order of strings, as sort.Strings orders the keys
Rank(c) == CHOOSE i \in 1..Len(Ascii) : Ascii[i] = c

RECURSIVE Less(_, _)
Less(s, t) ==
    IF t = <<>> THEN FALSE
    ELSE IF s = <<>> THEN TRUE
    ELSE IF Head(s) = Head(t) THEN Less(Tail(s), Tail(t))
    ELSE Rank(Head(s)) < Rank(Head(t))

RECURSIVE Sorted(_)
Sorted(keys) ==
    IF keys = {} THEN <<>>
    ELSE LET least == CHOOSE k \in keys : \A o \in keys \ {k} : Less(k, o)
         IN  <<least>> \o Sorted(keys \ {least})

\* key=value for each value of one key, joined by `&`
RECURSIVE encodeKey(_, _)
encodeKey(k, vs) ==
    IF vs = <<>> THEN <<>>
    ELSE escape(k, "query") \o <<"=">> \o escape(Head(vs), "query")
         \o (IF Tail(vs) = <<>> THEN <<>> ELSE <<"&">> \o encodeKey(k, Tail(vs)))

RECURSIVE encodeKeys(_, _)
encodeKeys(q, keys) ==
    IF keys = <<>> THEN <<>>
    ELSE encodeKey(Head(keys), q[Head(keys)])
         \o (IF Tail(keys) = <<>> THEN <<>> ELSE <<"&">> \o encodeKeys(q, Tail(keys)))

\* q.Encode(): the keys sorted
Encode(q) == encodeKeys(q, Sorted(DOMAIN q))

(***************************************************************************)
(* buildURL.                                                               *)
(***************************************************************************)
\* fmt.Sprintf("%v", val) for a string, a bool and a number that fmt writes as its
\* digits
Sprint(v) == v.s

\* strings.Replace(s, old, new, -1) for a non-empty old
RECURSIVE Replace(_, _, _)
Replace(s, old, new) ==
    IF Len(s) < Len(old) THEN s
    ELSE IF SubSeq(s, 1, Len(old)) = old
         THEN new \o Replace(SubSeq(s, Len(old) + 1, Len(s)), old, new)
         ELSE <<Head(s)>> \o Replace(Tail(s), old, new)

placeholder(n) == <<"{">> \o n \o <<"}">>

\* the first loop of buildURL: each path parameter present in args, in declaration
\* order, replaces its placeholder in the path built so far
RECURSIVE replacePathParameters(_, _, _)
replacePathParameters(p, args, parameters) ==
    IF parameters = <<>> THEN p
    ELSE LET param == Head(parameters)
         IN  IF param.value /\ param.in = "path" /\ Has(args, param.name)
             THEN replacePathParameters(
                      Replace(p, placeholder(param.name), Sprint(args[param.name])),
                      args, Tail(parameters))
             ELSE replacePathParameters(p, args, Tail(parameters))

HasSuffix(s, x) == Len(s) >= Len(x) /\ SubSeq(s, Len(s) - Len(x) + 1, Len(s)) = x

\* the normalisation of base URL and path: the string handed to url.Parse
joinAlways(baseURL, p) == baseURL \o <<"/">> \o p

join(baseURL, p) ==
    IF ~HasSuffix(baseURL, <<"/">>) /\ ~HasPrefix(p, <<"/">>) THEN baseURL \o <<"/">> \o p
    ELSE IF HasSuffix(baseURL, <<"/">>) /\ HasPrefix(p, <<"/">>) THEN baseURL \o Tail(p)
    ELSE baseURL \o p

\* the second loop of buildURL: q.Add for each query parameter present in args;
\* order lists the keys as they were first added
RECURSIVE addQueryParameters(_, _, _)
addQueryParameters(q, args, parameters) ==
    IF parameters = <<>> THEN q
    ELSE LET param == Head(parameters)
         IN  IF param.value /\ param.in = "query" /\ Has(args, param.name)
             THEN addQueryParameters(Add(q, param.name, Sprint(args[param.name])),
                                     args, Tail(parameters))
             ELSE addQueryParameters(q, args, Tail(parameters))

buildURL(baseURL, p, args, parameters) ==
    LET raw == join(baseURL, replacePathParameters(p, args, parameters))
        u   == Parse(raw)
        q   == addQueryParameters(parseQuery(NoValues, u.RawQuery), args, parameters)
    IN  IF u.err THEN raw
        ELSE String([u EXCEPT !.RawQuery = Encode(q)])

(***************************************************************************)
(* Specification of buildURL on one call.                                  *)
(***************************************************************************)
\* at most this many parameters are declared in the query cases
MaxURLParams == 3

nId == <<"i", "d">>
nJ  == <<"j">>
nZ  == <<"z">>
nA  == <<"a">>
nH  == <<"h">>

\* a declared parameter with a string schema; a path parameter is required
UParam(n, loc) == Param(n, loc, loc = "path", "string", <<>>)

bH       == <<"h", "t", "t", "p", ":", "/", "/", "h">>
bExample == <<"h", "t", "t", "p", "s", ":", "/", "/", "a", "p", "i", ".", "e", "x", "a",
              "m", "p", "l", "e", ".", "c", "o", "m">>

v42 == Num(<<"4", "2">>)
vK  == Str(<<"k">>)

\* string forms a path argument takes: plain, with a space, a `?`, a `#`, a `/`, a
\* broken escape, another placeholder
PathValues ==
    {v42, vK, True, Str(<<"a", " ", "b">>), Str(<<"x", "?", "y", "=", "1">>),
     Str(<<"x", "#", "f">>), Str(<<"a", "/", "b">>), Str(<<"%", "z", "z">>),
     Str(<<"{", "j", "}">>)}

QueryValues == {Str(<<"1">>), Str(<<"a", " ", "b">>)}

\* the maps that give each name of ks either no value or one of vs[k]
ArgsOver(ks, vs) ==
    UNION {[present -> UNION {vs[k] : k \in present}] : present \in SUBSET ks}

Args(ks, vs) == {a \in ArgsOver(ks, vs) : \A k \in DOMAIN a : a[k] \in vs[k]}

Call(b, p, ps, as) == [base |-> b, path |-> p, parameters |-> ps, args |-> as]

\* base URLs and paths with and without the joining slash; buildURL is given the
\* path as the document writes it
JoinCases ==
    {Call(b, p, <<UParam(nId, "path")>>, a) :
        b \in {bH, bH \o <<"/">>, bH \o <<"/", "/">>, bExample},
        p \in {<<>>, <<"u">>, <<"/", "u">>, <<"/", "/", "u">>, pUsersIdPosts},
        a \in Args({nId}, [k \in {nId} |-> {v42}])}

SubstCases ==
    {Call(bH, p, ps, a) :
        p \in {<<"/", "u", "/", "{", "i", "d", "}">>,
               <<"/", "{", "i", "d", "}", "/", "{", "j", "}">>,
               <<"/", "{", "i", "d", "}", "/", "{", "i", "d", "}">>,
               <<"/", "u", "/", "{", "k", "}">>},
        ps \in {<<UParam(nId, "path")>>,
                <<UParam(nId, "path"), UParam(nJ, "path")>>,
                <<UParam(nJ, "path"), UParam(nId, "path")>>,
                <<UParam(nId, "query")>>,
                <<NilParam, UParam(nId, "path")>>},
        a \in Args({nId, nJ}, [k \in {nId, nJ} |-> IF k = nId THEN PathValues ELSE {vK, v42}])}

QueryCases ==
    {Call(bH, p, ps, a) :
        p \in {<<"/", "u">>, <<"/", "u", "/", "{", "i", "d", "}">>},
        ps \in {s \in SeqsUpTo({UParam(nZ, "query"), UParam(nA, "query"),
                                UParam(nH, "header"), UParam(nId, "path")}, MaxURLParams) :
                    Injective(s)},
        a \in Args({nZ, nA, nH, nId},
                   [k \in {nZ, nA, nH, nId} |->
                       CASE k = nH  -> {Str(<<"t">>)}
                         [] k = nId -> {v42, Str(<<"x", "?", "y", "=", "1">>)}
                         [] OTHER   -> QueryValues])}

URLCases == JoinCases \cup SubstCases \cup QueryCases

InitURL ==
    /\ \E c \in URLCases :
           /\ ubase = c.base
           /\ utmpl = c.path
           /\ uparams = c.parameters
           /\ uargs = c.args
    /\ usubst = <<>>
    /\ ujoined = <<>>
    /\ url = <<>>
    /\ upc = "start"
    /\ IdleNorm /\ IdleFix /\ IdleID /\ IdleBuild /\ IdleTool /\ IdleName /\ IdleCall
    /\ IdleFetch /\ IdleGen

BuildURL ==
    /\ upc = "start"
    /\ usubst' = replacePathParameters(utmpl, uargs, uparams)
    /\ ujoined' = join(ubase, usubst')
    /\ url' = buildURL(ubase, utmpl, uargs, uparams)
    /\ upc' = "done"
    /\ UNCHANGED <<ubase, utmpl, uparams, uargs, normVars, fixVars, idVars, buildVars,
                   toolVars, nameVars, callVars,
                   fetchVars, genVars>>

NextURL == BuildURL

SpecURL == InitURL /\ [][NextURL]_vars

\* n is declared as a path (query) parameter
DeclaredIn(parameters, n, loc) ==
    \E i \in 1..Len(parameters) :
        parameters[i].value /\ parameters[i].in = loc /\ parameters[i].name = n

\* the template read once from left to right: a placeholder of a path parameter
\* present in args gives the argument's string form, any other placeholder itself
RECURSIVE Substituted(_, _, _)
Substituted(t, args, parameters) ==
    IF t = <<>> THEN <<>>
    ELSE IF Head(t) = "{" /\ Contains(Tail(t), "}")
         THEN LET n == Before(Tail(t), "}")
              IN  (IF DeclaredIn(parameters, n, "path") /\ Has(args, n)
                   THEN Sprint(args[n]) ELSE placeholder(n))
                  \o Substituted(After(Tail(t), "}"), args, parameters)
         ELSE <<Head(t)>> \o Substituted(Tail(t), args, parameters)

\* the returned URL up to its query and fragment
UrlPath == Before(Before(url, "#"), "?")

\* the query string of the returned URL
UrlQuery == After(Before(url, "#"), "?")

\* C16: buildURL replaces every `{name}` of the route template by the string form of
\* args[name] for each path parameter present in args and leaves every other
\* placeholder untouched, without an error; /users/{id}/posts with {id: 42} on
\* https://api.example.com gives https://api.example.com/users/42/posts.
C16_PathSubstitution ==
    upc = "done" =>
        /\ UrlPath = join(ubase, Substituted(utmpl, uargs, uparams))
        /\ (ubase = bExample /\ utmpl = pUsersIdPosts /\ Has(uargs, nId) /\ uargs[nId] = v42)
               => url = bExample \o <<"/", "u", "s", "e", "r", "s", "/", "4", "2",
                                       "/", "p", "o", "s", "t", "s">>

EndsWithSlash(s)   == s # <<>> /\ s[Len(s)] = "/"
StartsWithSlash(s) == s # <<>> /\ s[1] = "/"

\* C17: the base URL and the substituted path are joined so that when both carry
\* the slash the path's leading `/` is dropped, when neither does one `/` is
\* inserted, and otherwise they are concatenated; when the base has at most one
\* trailing `/` and the path at most one leading `/`, exactly one `/` separates them.
C17_Join ==
    upc = "done" =>
        /\ (EndsWithSlash(ubase) /\ StartsWithSlash(usubst))
               => ujoined = ubase \o SubSeq(usubst, 2, Len(usubst))
        /\ (~EndsWithSlash(ubase) /\ ~StartsWithSlash(usubst))
               => ujoined = ubase \o <<"/">> \o usubst
        /\ (EndsWithSlash(ubase) # StartsWithSlash(usubst))
               => ujoined = ubase \o usubst
        /\ LET b == IF EndsWithSlash(ubase) THEN SubSeq(ubase, 1, Len(ubase) - 1)
                    ELSE ubase
               p == IF StartsWithSlash(usubst) THEN SubSeq(usubst, 2, Len(usubst))
                    ELSE usubst
           IN  (~EndsWithSlash(b) /\ ~StartsWithSlash(p))
                   => /\ ujoined = b \o <<"/">> \o p
                      /\ HasPrefix(url, b \o <<"/">>)
                      /\ Len(url) > Len(b) + 1 => url[Len(b) + 2] # "/"

\* C17 witness: a base ending in `/` was joined to a path starting with `/`.
C17_Witness ==
    /\ upc = "done"
    /\ ubase = bH \o <<"/">> /\ usubst = <<"/", "u">>
    /\ url = bH \o <<"/", "u">>

\* a base without trailing `/` was joined to a path without leading `/`
C17_WitnessNeither ==
    /\ upc = "done"
    /\ ubase = bH /\ usubst = <<"u">>
    /\ url = bH \o <<"/", "u">>

\* the query string that lists the query parameters present in args in declaration
\* order, each percent-encoded
RECURSIVE DeclarationOrderQuery(_, _)
DeclarationOrderQuery(parameters, args) ==
    IF parameters = <<>> THEN <<>>
    ELSE LET p    == Head(parameters)
             rest == DeclarationOrderQuery(Tail(parameters), args)
         IN  IF p.value /\ p.in = "query" /\ Has(args, p.name)
             THEN escape(p.name, "query") \o <<"=">> \o escape(Sprint(args[p.name]), "query")
                  \o (IF rest = <<>> THEN <<>> ELSE <<"&">> \o rest)
             ELSE rest

\* C18: every query parameter present in args appears in the query string,
\* percent-encoded, in the order the parameters were declared.
C18_QueryDeclarationOrder ==
    upc = "done" => UrlQuery = DeclarationOrderQuery(uparams, uargs)

(***************************************************************************)
(* The live handler: createToolHandler and createHTTPRequest.              *)
(***************************************************************************)
mPUT   == <<"P", "U", "T">>
mPATCH == <<"P", "A", "T", "C", "H">>

hAuthorization == <<"A", "u", "t", "h", "o", "r", "i", "z", "a", "t", "i", "o", "n">>
hContentType   == <<"C", "o", "n", "t", "e", "n", "t", "-", "T", "y", "p", "e">>
hAccept        == <<"A", "c", "c", "e", "p", "t">>
sApplicationJSON ==
    <<"a", "p", "p", "l", "i", "c", "a", "t", "i", "o", "n", "/", "j", "s", "o", "n">>

\* a request body: nil, the bytes of a string, or the JSON text json.Marshal writes
\* for a value
NoBody        == [nil |-> TRUE,  raw |-> FALSE, text |-> <<>>, json |-> Null]
RawBody(t)    == [nil |-> FALSE, raw |-> TRUE,  text |-> t,    json |-> Null]
JSONBody(v)   == [nil |-> FALSE, raw |-> FALSE, text |-> <<>>, json |-> v]

\* the arguments that are not declared as a path or query parameter
bodyMap(args, parameters) ==
    [n \in {k \in DOMAIN args :
                ~(DeclaredIn(parameters, k, "path") \/ DeclaredIn(parameters, k, "query"))}
        |-> args[n]]

\* createHTTPRequest: the body is built for POST, PUT and PATCH only; json.Marshal
\* does not fail on a value decoded from JSON, as the arguments are;
\* http.NewRequestWithContext fails on a URL that url.Parse rejects
createHTTPRequest(m, u, args, o) ==
    LET body ==
            IF m \in {mPOST, mPUT, mPATCH}
            THEN IF Has(args, nBody)
                 THEN IF IsStr(args[nBody]) THEN RawBody(args[nBody].s)
                      ELSE JSONBody(args[nBody])
                 ELSE IF DOMAIN bodyMap(args, o.parameters) # {}
                      THEN JSONBody(Obj(bodyMap(args, o.parameters)))
                      ELSE NoBody
            ELSE NoBody
    IN  [err |-> Parse(u).err,
         request |-> [method |-> m, url |-> u, header |-> NoValues, body |-> body]]

\* httpReq.Header.Set
Set(r, k, v) == [r EXCEPT !.header = Put(r.header, k, v)]

\* the headers the handler sets on the request
setHeaders(r, authHeader) ==
    Set(Set(IF authHeader # <<>> THEN Set(r, hAuthorization, authHeader) ELSE r,
            hContentType, sApplicationJSON),
        hAccept, sApplicationJSON)

NoRequest == [method |-> <<>>, url |-> <<>>, header |-> NoValues, body |-> NoBody]
Result(k, w, st, t) == [kind |-> k, why |-> w, status |-> st, text |-> t]

\* what client.Do and io.ReadAll can give: no response, a response whose body
\* cannot be read, a response with its status and body
Statuses == {200, 399, 400, 500}
sResponse == <<"o", "k">>

Outcomes ==
    {[got |-> "transport error", status |-> 0], [got |-> "read error", status |-> 200]}
    \cup [got : {"response"}, status : Statuses]

respondOnlyServerErrors(o) ==
    IF o.got = "transport error" THEN Result("error", "transport", 0, <<>>)
    ELSE IF o.got = "read error" THEN Result("error", "read", o.status, <<>>)
    ELSE IF o.status >= 500 THEN Result("error", "status", o.status, sResponse)
    ELSE Result("text", "ok", o.status, sResponse)

\* what the handler returns once client.Do was called
respond(o) ==
    IF o.got = "transport error" THEN Result("error", "transport", 0, <<>>)
    ELSE IF o.got = "read error" THEN Result("error", "read", o.status, <<>>)
    ELSE IF o.status >= 400 THEN Result("error", "status", o.status, sResponse)
    ELSE Result("text", "ok", o.status, sResponse)

CallConfigs ==
    {[serviceURL |-> <<>>, authorization |-> <<>>],
     [serviceURL |-> bH,   authorization |-> <<>>],
     [serviceURL |-> bH,   authorization |-> <<"t", "k">>]}

CallOperations ==
    [path : {<<"/", "u", "/", "{", "i", "d", "}">>},
     method : {mGET, mPOST, mPUT, mPATCH, mDELETE},
     parameters : {<<UParam(nId, "path")>>,
                   <<UParam(nId, "path"), UParam(nH, "header")>>,
                   <<UParam(nId, "path"), UParam(nZ, "query")>>,
                   <<UParam(nId, "path"), UParam(nZ, "query"),
                     UParam(hContentType, "header")>>},
     requestBody : {NoRequestBody,
                    RequestBody(TRUE, <<>>, [m \in {"application/json"} |-> TRUE])}]

sTextPlain == <<"t", "e", "x", "t", "/", "p", "l", "a", "i", "n">>

CallArgs ==
    Args({nId, nZ, nH, nA, nBody, hContentType},
         [k \in {nId, nZ, nH, nA, nBody, hContentType} |->
             CASE k = nId   -> {v42, Str(<<"%", "z", "z">>)}
               [] k = nBody -> {Str(<<"r", "a", "w">>), Str(<<>>),
                                Obj([n \in {nA} |-> Str(<<"1">>)])}
               [] k = hContentType -> {Str(sTextPlain)}
               [] OTHER     -> {Str(<<"t">>)}])

\* an operation without parameters that takes a body, called with name and age
nName == <<"n", "a", "m", "e">>
nAge  == <<"a", "g", "e">>

opCreate ==
    [path |-> <<"/", "u">>, method |-> mPOST, parameters |-> <<>>,
     requestBody |-> RequestBody(TRUE, <<>>, [m \in {"application/json"} |-> TRUE])]

argsNameAge == [n \in {nName, nAge} |-> IF n = nName THEN Str(<<"x">>) ELSE Num(<<"3">>)]

InitCall ==
    /\ cfg \in CallConfigs
    /\ \/ cop \in CallOperations /\ cargs \in CallArgs
       \/ cop = opCreate /\ cargs = argsNameAge
    /\ req = NoRequest
    /\ res = Result("none", "none", 0, <<>>)
    /\ calls = 0
    /\ cpc = "start"
    /\ IdleNorm /\ IdleFix /\ IdleID /\ IdleBuild /\ IdleTool /\ IdleName /\ IdleURL
    /\ IdleFetch /\ IdleGen

\* the handler createToolHandler returns, called once
CallTool ==
    /\ cpc = "start"
    /\ cpc' = "done"
    /\ LET fullURL == buildURL(cfg.serviceURL, cop.path, cargs, cop.parameters)
           created == createHTTPRequest(cop.method, fullURL, cargs, cop)
       IN  IF cfg.serviceURL = <<>>
           THEN /\ res' = Result("text", "mock", 0, <<>>)
                /\ UNCHANGED <<req, calls>>
           ELSE IF created.err
           THEN /\ res' = Result("error", "create", 0, <<>>)
                /\ UNCHANGED <<req, calls>>
           ELSE /\ req' = setHeaders(created.request, cfg.authorization)
                /\ calls' = calls + 1
                /\ \E o \in Outcomes : res' = respond(o)
    /\ UNCHANGED <<cfg, cop, cargs, normVars, fixVars, idVars, buildVars, toolVars,
                   nameVars, urlVars, fetchVars, genVars>>

NextCall == CallTool

SpecCall == InitCall /\ [][NextCall]_vars

\* C19: on the live path each header parameter present in the arguments is sent as a
\* request header keyed by its original name, and is carried neither in the URL nor
\* in the request body.
C19_HeaderParameters ==
    (cpc = "done" /\ calls = 1) =>
        \A n \in DOMAIN cargs :
            DeclaredIn(cop.parameters, n, "header") =>
                /\ Has(req.header, n) /\ req.header[n] = Sprint(cargs[n])
                /\ ~Has(parseQuery(NoValues, After(Before(req.url, "#"), "?")), n)
                /\ ~(~req.body.nil /\ ~req.body.raw /\ IsObj(req.body.json)
                     /\ Has(req.body.json.o, n))

\* C20: a request body is constructed if and only if the operation declares a
\* requestBody, whatever the method and the arguments.
C20_BodyIffRequestBody ==
    (cpc = "done" /\ calls = 1) => (~req.body.nil <=> cop.requestBody.present)

\* the request body createHTTPRequest is claimed to build from a `body` argument
BodyOf(v) == IF IsStr(v) THEN RawBody(v.s) ELSE JSONBody(v)

\* no argument makes the URL unparsable
WellFormedArgs == ~(Has(cargs, nId) /\ cargs[nId] = Str(<<"%", "z", "z">>))

\* C21: when the arguments of a tool with a body contain the key `body`, the request body is exactly the
\* bytes of a string value and otherwise the JSON encoding of the value; a failing
\* JSON encoding is the only error the body steps report, so with arguments that
\* encode the request is constructed.
C21_BodyArgument ==
    (cpc = "done" /\ cfg.serviceURL # <<>> /\ cop.requestBody.present
     /\ Has(cargs, nBody) /\ WellFormedArgs) =>
        /\ calls = 1
        /\ res.why # "create"
        /\ req.body = BodyOf(cargs[nBody])

\* the argument entries whose key is not the name of a path or query parameter
Unclaimed(o, args) ==
    [n \in {k \in DOMAIN args :
                \A i \in 1..Len(o.parameters) :
                    (o.parameters[i].value /\ o.parameters[i].in \in {"path", "query"})
                        => o.parameters[i].name # k}
        |-> args[n]]

\* C22: when the tool has a body and the arguments contain no `body` key, the
\* request body is the JSON encoding of exactly the argument entries whose key is
\* not the name of a path or query parameter, also when no such entry remains; with
\* no parameters and args {name: "x", age: 3} the body is that object.
C22_BodyFallback ==
    (cpc = "done" /\ calls = 1 /\ DeclaresBody(cop) /\ ~Has(cargs, nBody)) =>
        /\ req.body = JSONBody(Obj(Unclaimed(cop, cargs)))
        /\ (cop = opCreate /\ cargs = argsNameAge)
               => req.body = JSONBody(Obj([n \in {nName, nAge} |->
                                  IF n = nName THEN Str(<<"x">>) ELSE Num(<<"3">>)]))

\* C23: every request carries Content-Type: application/json and Accept:
\* application/json unless a header parameter of the tool set that header, whose
\* value is then kept, and carries Authorization exactly when service.authorization
\* is non-empty, with the configured value.
C23_CommonHeaders ==
    (cpc = "done" /\ calls = 1) =>
        /\ \A h \in {hContentType, hAccept} :
               /\ Has(req.header, h)
               /\ req.header[h] = IF DeclaredIn(cop.parameters, h, "header") /\ Has(cargs, h)
                                  THEN Sprint(cargs[h]) ELSE sApplicationJSON
        /\ Has(req.header, hAuthorization) <=> cfg.authorization # <<>>
        /\ Has(req.header, hAuthorization) => req.header[hAuthorization] = cfg.authorization

\* C27: an invocation issues at most one HTTP call and never retries: none when
\* service.url is empty (a mock text result, no error) or when the request cannot
\* be constructed (an error); otherwise exactly one, after which the handler returns
\* an error if the transport failed, the body could not be read or the status is
\* >= 400, and the response body as text if the status is < 400.
C27_OneCall ==
    /\ calls <= 1
    /\ cpc = "start" => calls = 0
    /\ cpc = "done" =>
           /\ cfg.serviceURL = <<>> => (calls = 0 /\ res.kind = "text" /\ res.why = "mock")
           /\ (cfg.serviceURL # <<>> /\ ~WellFormedArgs) => (calls = 0 /\ res.kind = "error")
           /\ (cfg.serviceURL # <<>> /\ WellFormedArgs) =>
                  /\ calls = 1
                  /\ res.kind \in {"text", "error"}
                  /\ res.why \in {"transport", "read"} => res.kind = "error"
                  /\ res.status >= 400 => res.kind = "error"
                  /\ (res.why \notin {"transport", "read"} /\ res.status < 400)
                         => (res.kind = "text" /\ res.text = sResponse)

\* C27 witness: one call was made and answered with status 400: the handler
\* returned an error.
C27_Witness ==
    /\ cpc = "done" /\ calls = 1
    /\ res = Result("error", "status", 400, sResponse)

\* the original names an emitted parameter stands for: the keys the parameters
\* dictionary fills from it, or its own name (`body`) when there is none
OriginalNames(f, v) ==
    IF \E i \in 1..Len(f.dict) : f.dict[i].var = v
    THEN {f.dict[i].key : i \in {k \in 1..Len(f.dict) : f.dict[k].var = v}}
    ELSE {v}

\* the parameters of the live tool, each with its required flag
LiveExposed(tool) ==
    {<<n, \E i \in 1..Len(tool.required) : tool.required[i] = n>> :
        n \in DOMAIN tool.properties}

\* the parameters of the emitted function under their original names, each with its
\* required flag
EmittedExposed(f) ==
    UNION {{<<n, f.params[i].required>> : n \in OriginalNames(f, f.params[i].name)} :
              i \in 1..Len(f.params)}

\* C26: the live tool and the emitted function of an operation agree: the parameter
\* names the live tool exposes, with their required flags and the presence of
\* `body`, are those of the emitted function mapped back to original names, also
\* for a parameter without a schema and a request body without a schema-carrying
\* media type.
C26_LiveEmittedAgree ==
    opc = "done" => LiveExposed(live) = EmittedExposed(py)

\* the orders in which the declared parameters can be listed
Reorderings(ps) ==
    {[i \in 1..Len(ps) |-> ps[f[i]]] :
        f \in {g \in [1..Len(ps) -> 1..Len(ps)] : \A i, j \in 1..Len(ps) : g[i] = g[j] => i = j}}

\* C28: path substitution does not depend on the order in which the path parameters
\* are declared and never substitutes inside a substituted value: every order gives
\* the path obtained by reading the template once, also when an argument's value
\* contains the placeholder of another path parameter.
C28_SubstitutionOrder ==
    upc = "done" =>
        /\ \A ps \in Reorderings(uparams) :
               replacePathParameters(utmpl, uargs, ps) = usubst
        /\ usubst = Substituted(utmpl, uargs, uparams)

\* the path arguments of a call replaced by other values
OtherPathArgs(args, parameters) ==
    LET pathKeys == {k \in DOMAIN args : DeclaredIn(parameters, k, "path")}
    IN  {[k \in DOMAIN args |-> IF k \in pathKeys THEN f[k] ELSE args[k]] :
            f \in [pathKeys -> PathValues]}

\* C30: the query of the URL buildURL returns depends only on the query arguments:
\* a call that differs only in the values of path arguments, such as one with a
\* `?`, `#` or `/`, gives the same query string, and every supplied query parameter
\* is present in the result whatever the path argument values are.
C30_QueryIndependentOfPath ==
    upc = "done" =>
        /\ \A a \in OtherPathArgs(uargs, uparams) :
               After(Before(buildURL(ubase, utmpl, a, uparams), "#"), "?") = UrlQuery
        /\ \A n \in DOMAIN uargs :
               DeclaredIn(uparams, n, "query") =>
                   /\ Has(parseQuery(NoValues, UrlQuery), n)
                   /\ \E i \in 1..Len(parseQuery(NoValues, UrlQuery)[n]) :
                          parseQuery(NoValues, UrlQuery)[n][i] = Sprint(uargs[n])

(***************************************************************************)
(* The emitted server: build_url and the parameters dictionary handed to   *)
(* it by a tool function.                                                  *)
(***************************************************************************)
\* Python str(value) for a str, an int and a bool
pyStr(v) ==
    IF v.t = "bool" THEN (IF v = True THEN <<"T", "r", "u", "e">> ELSE <<"F", "a", "l", "s", "e">>)
    ELSE v.s

\* `sub in s` on Python strings
InString(sub, s) == \E i \in 1..(Len(s) - Len(sub) + 1) : SubSeq(s, i, i + Len(sub) - 1) = sub

\* params[key] = value on a dict, which keeps insertion order
dictSet(d, k, v) ==
    IF \E i \in 1..Len(d) : d[i].key = k
    THEN [i \in 1..Len(d) |-> IF d[i].key = k THEN [key |-> k, value |-> v] ELSE d[i]]
    ELSE Append(d, [key |-> k, value |-> v])

\* the dictionary the code written by writeParametersDictionary fills: one entry,
\* under the original name, for each declared parameter whose argument is not None
RECURSIVE fillParams(_, _, _)
fillParams(d, entries, args) ==
    IF entries = <<>> THEN d
    ELSE fillParams(IF Has(args, Head(entries).key)
                    THEN dictSet(d, Head(entries).key, args[Head(entries).key])
                    ELSE d,
                    Tail(entries), args)

paramsDictionary(parameters, args) ==
    fillParams(<<>>, writeParametersDictionary([parameters |-> parameters]), args)

\* the first loop of build_url: every entry whose placeholder is in the path built so
\* far replaces it by str(value)
RECURSIVE pyReplacePathParameters(_, _)
pyReplacePathParameters(p, params) ==
    IF params = <<>> THEN p
    ELSE pyReplacePathParameters(
             IF InString(placeholder(Head(params).key), p)
             THEN Replace(p, placeholder(Head(params).key), pyStr(Head(params).value))
             ELSE p,
             Tail(params))

\* urllib.parse.quote_plus: letters, digits and `_.-~` are kept, a space becomes `+`,
\* any other byte %XX
RECURSIVE quote_plus(_)
quote_plus(s) ==
    IF s = <<>> THEN <<>>
    ELSE (IF Head(s) \in Unreserved THEN <<Head(s)>>
          ELSE IF Head(s) = " " THEN <<"+">>
          ELSE <<"%">> \o Hex(Head(s)))
         \o quote_plus(Tail(s))

\* urllib.parse.urlencode of a dict: the pairs in insertion order, joined by `&`
RECURSIVE urlencode(_)
urlencode(query) ==
    IF query = <<>> THEN <<>>
    ELSE quote_plus(Head(query).key) \o <<"=">> \o quote_plus(pyStr(Head(query).value))
         \o (IF Tail(query) = <<>> THEN <<>> ELSE <<"&">> \o urlencode(Tail(query)))

\* the path build_url joins to the base URL, after the slash normalisation
pyPath(base_url, p, params) ==
    LET replaced == pyReplacePathParameters(p, params)
    IN  IF HasSuffix(base_url, <<"/">>) /\ HasPrefix(replaced, <<"/">>)
        THEN Tail(replaced) ELSE replaced

\* the entries build_url sends as the query: those whose placeholder is not in the
\* path it has built
query_params(base_url, p, params) ==
    SelectSeq(params, LAMBDA e : ~InString(placeholder(e.key), pyPath(base_url, p, params)))

\* build_url(base_url, path, params) of the emitted server
build_url(base_url, p, params) ==
    LET joined == pyPath(base_url, p, params)
        base   == IF ~HasSuffix(base_url, <<"/">>) /\ ~HasPrefix(joined, <<"/">>)
                  THEN base_url \o <<"/">> ELSE base_url
        query  == query_params(base_url, p, params)
    IN  base \o joined \o (IF query # <<>> THEN <<"?">> \o urlencode(query) ELSE <<>>)

\* a tool function of the emitted server builds its URL
EmittedBuildURL ==
    /\ upc = "start"
    /\ LET params == paramsDictionary(uparams, uargs)
       IN  /\ usubst' = pyPath(ubase, utmpl, params)
           /\ url' = build_url(ubase, utmpl, params)
           /\ ujoined' = Before(url', "?")
    /\ upc' = "emitted"
    /\ UNCHANGED <<ubase, utmpl, uparams, uargs, normVars, fixVars, idVars, buildVars,
                   toolVars, nameVars, callVars, fetchVars, genVars>>

NextEmittedURL == EmittedBuildURL

SpecEmittedURL == InitURL /\ [][NextEmittedURL]_vars

\* the `key=value` pairs of a query string
RECURSIVE QueryPairs(_)
QueryPairs(query) ==
    IF query = <<>> THEN {}
    ELSE LET pair == Before(query, "&")
         IN  {<<Before(pair, "="), After(pair, "=")>>} \cup QueryPairs(After(query, "&"))

\* C29: the query string of the URL the emitted build_url builds contains exactly
\* the supplied parameters declared with location query: a parameter substituted
\* into the path is not in it, nor is a header parameter.
C29_EmittedQuery ==
    upc = "emitted" =>
        QueryPairs(After(url, "?"))
            = {<<quote_plus(n), quote_plus(pyStr(uargs[n]))>> :
                   n \in {k \in DOMAIN uargs : DeclaredIn(uparams, k, "query")}}

(***************************************************************************)
(* FetchAndParse: URL validation, HTTP GET, preprocessing, loading,        *)
(* validation.                                                             *)
(***************************************************************************)
uInvalid  == <<"i", "n", "v", "a", "l", "i", "d", "-", "u", "r", "l">>
uOpenAPI  == bH \o <<"/", "o", "p", "e", "n", "a", "p", "i", ".", "j", "s", "o", "n">>
uRelative == <<"/", "o", "p", "e", "n", "a", "p", "i", ".", "j", "s", "o", "n">>

FetchURLs == {<<>>, uInvalid, uOpenAPI, uRelative}

\* getScheme: letters, then letters, digits and `+-.`, up to a `:`
hasScheme(rawURL) ==
    \E i \in 2..Len(rawURL) :
        /\ rawURL[i] = ":"
        /\ IsLetter(rawURL[1])
        /\ \A j \in 2..(i - 1) : IsLetter(rawURL[j]) \/ IsDigit(rawURL[j])
                                   \/ rawURL[j] \in {"+", "-", "."}

\* url.ParseRequestURI reports an error for the empty string and for a string that
\* neither starts with `/` nor has a scheme
ParseRequestURI(rawURL) ==
    [err |-> rawURL = <<>> \/ (Head(rawURL) # "/" /\ ~hasScheme(rawURL))]

sTestAPI == <<"T", "e", "s", "t", " ", "A", "P", "I">>
InfoOf(title) == Obj([title |-> Str(title), version |-> Str(<<"1", ".", "0", ".", "0">>)])
UserSchemas == Obj([schemas |-> Obj([User |-> Obj([type |-> Str(sObject)])])])
UsersPaths  == Obj([users |-> Obj([get |-> Obj([summary |-> Str(sSummary)])])])

\* the document the test server of TestFetchAndParse serves
docTestAPI == Obj([openapi |-> Str(s300), info |-> InfoOf(sTestAPI), paths |-> UsersPaths,
                   components |-> UserSchemas])

\* the same API written for 3.1.0 with a null union, and without components
docTestAPI31 ==
    Obj([openapi |-> Str(<<"3", ".", "1", ".", "0">>), info |-> InfoOf(sTestAPI),
         paths |-> UsersPaths,
         components |-> Obj([schemas |-> Obj([User |-> Obj(NullUnion(LStr))])])])
docNoComponents ==
    Obj([openapi |-> Str(s300), info |-> InfoOf(sTestAPI), paths |-> UsersPaths])

Text(v) == [valid |-> TRUE, compact |-> FALSE, json |-> v]

ServedBodies ==
    {NotJSON, Text(Arr(<<>>)), Text(Null), Text(Obj(EmptyMap)),
     Text(Obj([openapi |-> Str(s300), paths |-> UsersPaths])),
     Text(docTestAPI), Text(docTestAPI31), Text(docNoComponents)}

\* the fields openapi3 requires of a document: the version, info with title and
\* version, and paths
WellFormed(b) ==
    /\ b.valid /\ IsObj(b.json)
    /\ Has(b.json.o, "openapi") /\ IsStr(b.json.o["openapi"])
    /\ HasPrefix(b.json.o["openapi"].s, <<"3", ".", "0">>)
    /\ Has(b.json.o, "info") /\ IsObj(b.json.o["info"])
    /\ Has(b.json.o["info"].o, "title") /\ Has(b.json.o["info"].o, "version")
    /\ Has(b.json.o, "paths") /\ IsObj(b.json.o["paths"])

\* what answers the GET: nothing, or a response with a status and a body that can or
\* cannot be read to its end; `rejected` is the stage at which openapi3 rejects a
\* body that is not a well-formed document
Servers ==
    {[reachable |-> FALSE, status |-> 0, readable |-> FALSE, body |-> NotJSON,
      rejected |-> "load"]}
    \cup [reachable : {TRUE}, status : {200, 204, 404}, readable : BOOLEAN,
          body : ServedBodies, rejected : {"load", "validate"}]

FetchResult(k, st, d) == [kind |-> k, stage |-> st, doc |-> d]
Fetching == FetchResult("running", "none", Null)

\* client.Do and io.ReadAll: an error for a URL without http scheme, a server that is
\* not reachable and a body that cannot be read; a status other than 200 is an error
getAnyStatus(u, server) ==
    [err |-> ~HasPrefix(u, <<"h", "t", "t", "p", ":", "/", "/">>) \/ ~server.reachable
             \/ ~server.readable,
     body |-> server.body]

get(u, server) ==
    [err |-> ~HasPrefix(u, <<"h", "t", "t", "p", ":", "/", "/">>) \/ ~server.reachable
             \/ server.status # 200 \/ ~server.readable,
     body |-> server.body]

\* loader.LoadFromData and doc.Validate on the preprocessed bytes
LoadFromData(b, server) == [err |-> ~WellFormed(b) /\ server.rejected = "load", doc |-> b.json]
Validate(b, server)     == [err |-> ~WellFormed(b)]

InitFetch ==
    /\ fURL \in FetchURLs
    /\ fServer \in Servers
    /\ fStages = <<>>
    /\ fRequests = 0
    /\ fRes = Fetching
    /\ IdleNorm /\ IdleFix /\ IdleID /\ IdleBuild /\ IdleTool /\ IdleName /\ IdleURL
    /\ IdleCall /\ IdleGen

\* a stage starts, and FetchAndParse returns nil and an error if it fails
RunStage(after, stage, failed) ==
    /\ fRes = Fetching
    /\ fStages = after
    /\ fStages' = Append(fStages, stage)
    /\ fRes' = IF failed THEN FetchResult("error", stage, Null) ELSE fRes
    /\ UNCHANGED <<fURL, fServer, normVars, fixVars, idVars, buildVars, toolVars, nameVars,
                   urlVars, callVars, genVars>>

ValidateURL ==
    /\ RunStage(<<>>, "url", ParseRequestURI(fURL).err)
    /\ UNCHANGED fRequests

Get ==
    /\ RunStage(<<"url">>, "get", get(fURL, fServer).err)
    /\ fRequests' = fRequests + 1

Preprocessed == preprocessOpenAPISpec(get(fURL, fServer).body)

Preprocess ==
    /\ RunStage(<<"url", "get">>, "preprocess", Preprocessed.err)
    /\ UNCHANGED fRequests

Load ==
    /\ RunStage(<<"url", "get", "preprocess">>, "load",
                LoadFromData(Preprocessed.bytes, fServer).err)
    /\ UNCHANGED fRequests

ValidateDocument ==
    /\ RunStage(<<"url", "get", "preprocess", "load">>, "validate",
                Validate(Preprocessed.bytes, fServer).err)
    /\ UNCHANGED fRequests

\* the counts and `return doc, nil`; reading doc.Components.Schemas of a document
\* without components dereferences a nil pointer where T.Components is a pointer
Return ==
    /\ fRes = Fetching
    /\ fStages = <<"url", "get", "preprocess", "load", "validate">>
    /\ LET loaded == LoadFromData(Preprocessed.bytes, fServer).doc
       IN  \/ fRes' = FetchResult("doc", "none", loaded)
           \/ /\ ~Has(loaded.o, "components")
              /\ fRes' = FetchResult("panic", "count", Null)
    /\ UNCHANGED <<fURL, fServer, fStages, fRequests, normVars, fixVars, idVars, buildVars,
                   toolVars, nameVars, urlVars, callVars, genVars>>

NextFetch == ValidateURL \/ Get \/ Preprocess \/ Load \/ ValidateDocument \/ Return

SpecFetch == InitFetch /\ [][NextFetch]_vars

FetchStages == <<"url", "get", "preprocess", "load", "validate">>

\* whether a stage succeeds on the URL and the server of this call
StageSucceeds(stage) ==
    CASE stage = "url"        -> ~ParseRequestURI(fURL).err
      [] stage = "get"        -> /\ fServer.reachable /\ fServer.status = 200
                                 /\ fServer.readable
                                 /\ HasPrefix(fURL, <<"h", "t", "t", "p", ":", "/", "/">>)
      [] stage = "preprocess" -> ~preprocessOpenAPISpec(fServer.body).err
      [] stage = "load"       -> \/ WellFormed(preprocessOpenAPISpec(fServer.body).bytes)
                                 \/ fServer.rejected # "load"
      [] stage = "validate"   -> WellFormed(preprocessOpenAPISpec(fServer.body).bytes)

C24_WitnessRejected ==
    /\ fStages = FetchStages
    /\ fRequests = 1
    /\ fRes = FetchResult("error", "validate", Null)

(***************************************************************************)
(* The Generator: New, then Generate once per document.                    *)
(***************************************************************************)
\* at most this many Generate calls are made on one Generator
MaxGenerate == 3

dOut == <<"o", "u", "t">>
dGen == <<"g", "e", "n">>

sPetStore == <<"P", "e", "t", " ", "S", "t", "o", "r", "e">>
DocTitles == {sTestAPI, sPetStore, <<"A">>}

\* New(logger, outputDir...): the configured output.dir unless a non-empty directory
\* is given
New(configured, given) == IF given # <<>> THEN given ELSE configured

\* the folder name Generate derives from doc.Info.Title
folderName(title) ==
    ToLower(ReplaceAll(title, " ", <<"_">>))
    \o <<"_", "m", "c", "p", "_", "s", "e", "r", "v", "e", "r">>

\* filepath.Join of a clean directory and a name: an empty element is ignored
Join(dir, name) == IF dir = <<>> THEN name ELSE dir \o <<"/">> \o name

InitGenerate ==
    /\ \E configured \in {<<>>, dOut}, given \in {<<>>, dGen} :
           /\ gConfigured = New(configured, given)
           /\ gOutputDir = New(configured, given)
    /\ gTitles = <<>>
    /\ gProject = <<>>
    /\ IdleNorm /\ IdleFix /\ IdleID /\ IdleBuild /\ IdleTool /\ IdleName /\ IdleURL
    /\ IdleCall /\ IdleFetch

\* g.Generate(ctx, doc): the project directory is joined to g.outputDir and stored
\* back in it before the project is written; writing the project succeeds or fails
Generate ==
    /\ Len(gTitles) < MaxGenerate
    /\ \E title \in DocTitles, written \in BOOLEAN :
           LET projectDir == Join(gOutputDir, folderName(title))
           IN  /\ gTitles' = Append(gTitles, title)
               /\ gOutputDir' = projectDir
               /\ gProject' = Append(gProject, [dir |-> projectDir, err |-> ~written])
    /\ UNCHANGED <<gConfigured, normVars, fixVars, idVars, buildVars, toolVars, nameVars,
                   urlVars, callVars, fetchVars>>

NextGenerate == Generate

SpecGenerate == InitGenerate /\ [][NextGenerate]_vars

\* C25: the Generator keeps no state from one document to the next: every Generate
\* call, whatever calls came before it, writes its project under
\* <configured output dir>/<folder name of the document>, as a fresh Generator does.
C25_StatelessGenerate ==
    \A i \in 1..Len(gProject) :
        gProject[i].dir = Join(gConfigured, folderName(gTitles[i]))

====
